---- MODULE Spec2Model ----
(***************************************************************************)
(* Model of jobspec/parse.go: the transformation of an HCL job tree into   *)
(* an api.Job.  The input tree is the value `input`; the transform runs    *)
(* as the sequence of steps of Parse/parseJob (one action per step), each  *)
(* step calling the operators that model the nested transformers.          *)
(*                                                                         *)
(* Conventions: an optional value (a Go nil-able pointer, a missing map    *)
(* key) is a sequence of length 0 or 1; a list of HCL items of one key is  *)
(* a sequence of block records in declaration order.                       *)
(***************************************************************************)
EXTENDS Integers, Sequences, FiniteSets, TLC

VARIABLES input, pc, job, ret

vars == <<input, pc, job, ret>>

(***************************************************************************)
(* Bounds of the explored inputs.                                          *)
(***************************************************************************)
MaxConstraints == 3
MaxBare == 2
MaxGroups == 2
MaxPorts == 3
MaxMeta == 2
MaxHeaders == 2

Nil == <<>>
Some(x) == <<x>>
Opt(S) == {Nil} \cup {Some(x) : x \in S}

SeqsUpTo(S, n) == UNION {[1..k -> S] : k \in 0..n}

(***************************************************************************)
(* Errors.  msg/arg are the format string and its %s argument; prefix is   *)
(* the list of multierror.Prefix / fmt.Errorf wrappers from the outermost  *)
(* to the innermost, each with the text and the name it interpolates.      *)
(* at is the structural position of the block whose processing raised the *)
(* error (outermost first) and unknownKey/badType describe that block.     *)
(* panic marks a Go run-time panic, which unwinds like an error but is not *)
(* returned.                                                               *)
(***************************************************************************)
Frame(kind, name) == [k |-> kind, n |-> name]

Err(msg, arg, blk) ==
    [msg |-> msg, arg |-> arg, prefix |-> <<>>, at |-> <<>>,
     unknownKey |-> blk.badKey, badType |-> blk.badType, panic |-> FALSE]

\* A block item: labelled tells whether keys (labels) are left on the item
\* once the block's own key is filtered off.
NoBlk == [badKey |-> FALSE, badType |-> FALSE, labelled |-> FALSE]

\* list.Items[0] on an empty list.
IndexOutOfRange == [Err("index out of range", "", NoBlk) EXCEPT !.panic = TRUE]

\* ast.ObjectList.Elem(): the items of the list that carry no key.
Elem(list) == SelectSeq(list, LAMBDA b : ~b.labelled)

\* One multierror.Prefix(err, fmt.Sprintf(text, name)) wrapper.
P(name, text) == [name |-> name, text |-> text]

\* A return boundary: pfx holds the wrapper the code adds there (none for a
\* plain `return err`), frames the enclosing blocks the boundary leaves.
Wrap(e, pfx, frames) ==
    [e EXCEPT !.prefix = pfx \o @, !.at = frames \o @]

Ok(v) == [err |-> Nil, val |-> v]
Fail(e, v) == [err |-> Some(e), val |-> v]

\* The result of a body that ends with the optional error e and value v.
Result(e, v) == IF e # Nil THEN Fail(e[1], v) ELSE Ok(v)

\* The error of a callee's result as wrapped by the caller, or Nil.
Wrapped(r, pfx, frames) ==
    IF r.err = Nil THEN Nil ELSE Some(Wrap(r.err[1], pfx, frames))

\* An optional error as wrapped by the caller, or Nil.
WrappedErr(e, pfx, frames) ==
    IF e = Nil THEN Nil ELSE Some(Wrap(e[1], pfx, frames))

\* The first error of a list of optional errors given in code order.
FirstErr(errs) ==
    IF \A i \in 1..Len(errs) : errs[i] = Nil THEN Nil
    ELSE errs[CHOOSE i \in 1..Len(errs) :
                /\ errs[i] # Nil
                /\ \A j \in 1..(i - 1) : errs[j] = Nil]

(***************************************************************************)
(* helper.CheckHCLKeys, hcl.DecodeObject and mapstructure.WeakDecode on a  *)
(* block: a block carries whether it holds a key outside its whitelist and *)
(* whether it holds an attribute that cannot be coerced to its field type. *)
(***************************************************************************)
CheckHCLKeys(blk) ==
    IF blk.badKey THEN Some(Err("invalid key", "", blk)) ELSE Nil

\* Decoding an object node into a generic map[string]interface{} succeeds.
DecodeObject(blk) == Nil

WeakDecode(blk) ==
    IF blk.badType THEN Some(Err("decode error", "", blk)) ELSE Nil

(***************************************************************************)
(* parseBool and strconv.ParseBool.  A value is [t |-> type, v |-> text].  *)
(***************************************************************************)
StrconvParseBool(s) ==
    IF s \in {"1", "t", "T", "TRUE", "true", "True"} THEN [ok |-> TRUE, b |-> TRUE]
    ELSE IF s \in {"0", "f", "F", "FALSE", "false", "False"} THEN [ok |-> TRUE, b |-> FALSE]
    ELSE [ok |-> FALSE, b |-> FALSE]

parseBool(value) ==
    IF value.t = "string" THEN StrconvParseBool(value.v)
    ELSE IF value.t = "bool" THEN [ok |-> TRUE, b |-> (value.v = "true")]
    ELSE [ok |-> FALSE, b |-> FALSE]

(***************************************************************************)
(* parseConstraints.  An entry is the attribute map of one constraint      *)
(* block: every key is absent (Nil) or present with a value.               *)
(***************************************************************************)
ConstraintVersion == "version"
ConstraintRegex == "regexp"
ConstraintSetContains == "set_contains"
ConstraintDistinctHosts == "distinct_hosts"
ConstraintDistinctProperty == "distinct_property"

\* mapstructure.WeakDecode of a map entry into a string field: a missing
\* (nil) entry leaves the zero value.
WeakString(o) == IF o = Nil THEN "" ELSE o[1]

EntryBlk(e) == [badKey |-> e.badKey, badType |-> FALSE, labelled |-> e.labelled]

\* As ConstraintAliases, but version only fills an operand left unset.
ConstraintAliasesKeepOperator(e) ==
    LET m0 == [LTarget |-> e.attribute, RTarget |-> e.value, Operand |-> e.operator]
        m1 == IF e.version # Nil /\ e.operator = Nil
              THEN [m0 EXCEPT !.Operand = Some("version"), !.RTarget = e.version]
              ELSE m0
        m2 == IF e.regexp # Nil
              THEN [m1 EXCEPT !.Operand = Some("regexp"), !.RTarget = e.regexp]
              ELSE m1
        m3 == IF e.set_contains # Nil
              THEN [m2 EXCEPT !.Operand = Some("set_contains"), !.RTarget = e.set_contains]
              ELSE m2
    IN m3

\* The alias overwrites of lines 556-579, before distinct_hosts.
ConstraintAliases(e) ==
    LET m0 == [LTarget |-> e.attribute, RTarget |-> e.value, Operand |-> e.operator]
        m1 == IF e.version # Nil
              THEN [m0 EXCEPT !.Operand = Some(ConstraintVersion), !.RTarget = e.version]
              ELSE m0
        m2 == IF e.regexp # Nil
              THEN [m1 EXCEPT !.Operand = Some(ConstraintRegex), !.RTarget = e.regexp]
              ELSE m1
        m3 == IF e.set_contains # Nil
              THEN [m2 EXCEPT !.Operand = Some(ConstraintSetContains), !.RTarget = e.set_contains]
              ELSE m2
    IN m3

\* As BuildConstraint, but an operand left empty stays empty.
BuildConstraintNoDefault(e, m) ==
    LET m5 == IF e.distinct_property # Nil
              THEN [m EXCEPT !.Operand = Some(ConstraintDistinctProperty),
                             !.LTarget = e.distinct_property]
              ELSE m
    IN [LTarget |-> WeakString(m5.LTarget),
        RTarget |-> WeakString(m5.RTarget),
        Operand |-> WeakString(m5.Operand)]

\* Lines 595-609: distinct_property, the decode and the default operand.
BuildConstraint(e, m) ==
    LET m5 == IF e.distinct_property # Nil
              THEN [m EXCEPT !.Operand = Some(ConstraintDistinctProperty),
                             !.LTarget = e.distinct_property]
              ELSE m
        c == [LTarget |-> WeakString(m5.LTarget),
              RTarget |-> WeakString(m5.RTarget),
              Operand |-> WeakString(m5.Operand)]
    IN IF c.Operand = "" THEN [c EXCEPT !.Operand = "="] ELSE c

\* One iteration of the loop of parseConstraints:
\* [err, skip (the `continue`), c (the constraint appended)].
NoConstraint == [LTarget |-> "", RTarget |-> "", Operand |-> ""]

SkipDisabledAsEnabled(e, enabled) == FALSE

SkipDisabled(e, enabled) == ~enabled

ParseConstraintEntry(e) ==
    LET keys == CheckHCLKeys(EntryBlk(e))
        m3 == ConstraintAliases(e)
    IN IF keys # Nil THEN [err |-> keys, skip |-> FALSE, c |-> NoConstraint]
       ELSE IF e.distinct_hosts # Nil
       THEN LET r == parseBool(e.distinct_hosts[1])
            IN IF ~r.ok
               THEN [err |-> Some(Err("distinct_hosts should be set to true or false", "",
                                      EntryBlk(e))),
                     skip |-> FALSE, c |-> NoConstraint]
               ELSE IF SkipDisabled(e, r.b)
               THEN [err |-> Nil, skip |-> TRUE, c |-> NoConstraint]
               ELSE [err |-> Nil, skip |-> FALSE,
                     c |-> BuildConstraint(e, [m3 EXCEPT !.Operand = Some(ConstraintDistinctHosts)])]
       ELSE [err |-> Nil, skip |-> FALSE, c |-> BuildConstraint(e, m3)]

RECURSIVE ParseConstraintsFrom(_, _, _)
\* The rest of the loop once the entry at i gave r.
AfterConstraint(list, i, result, r) ==
    IF r.err # Nil THEN Fail(r.err[1], result)
    ELSE ParseConstraintsFrom(list, i + 1,
                              IF r.skip THEN result ELSE Append(result, r.c))

ParseConstraintsFrom(list, i, result) ==
    IF i > Len(list) THEN Ok(result)
    ELSE AfterConstraint(list, i, result, ParseConstraintEntry(list[i]))

parseConstraints(result, list) == ParseConstraintsFrom(Elem(list), 1, result)

(***************************************************************************)
(* The singleton policy blocks.  `list` is list.Elem(): the items of the   *)
(* key; the decoded struct is abstracted to the block it was decoded from. *)
(* Each starts with list = list.Elem() and indexes list.Items[0].          *)
(***************************************************************************)
\* The shape of parseRestartPolicy: count, whitelist, map decode, typed decode.
CheckedSingleton(final, list, only) ==
    IF Len(list) > 1 THEN Fail(Err(only, "", NoBlk), final)
    ELSE IF Len(list) = 0 THEN Fail(IndexOutOfRange, final)
    ELSE Result(FirstErr(<<CheckHCLKeys(list[1]), DecodeObject(list[1]),
                           WeakDecode(list[1])>>),
                Some(list[1]))

\* The shape of parseUpdate: count, map decode, whitelist, typed decode.
DecodedSingleton(result, list, only) ==
    IF Len(list) > 1 THEN Fail(Err(only, "", NoBlk), result)
    ELSE IF Len(list) = 0 THEN Fail(IndexOutOfRange, result)
    ELSE Result(FirstErr(<<DecodeObject(list[1]), CheckHCLKeys(list[1]),
                           WeakDecode(list[1])>>),
                Some(list[1]))

parseRestartPolicy(final, list) ==
    CheckedSingleton(final, Elem(list), "only one 'restart' block allowed")

parseReschedulePolicy(final, list) ==
    CheckedSingleton(final, Elem(list), "only one 'reschedule' block allowed")

parseEphemeralDisk(result, list) ==
    CheckedSingleton(result, Elem(list), "only one 'ephemeral_disk' block allowed")

parseUpdate(result, list) ==
    DecodedSingleton(result, Elem(list), "only one 'update' block allowed")

parseMigrate(result, list) ==
    DecodedSingleton(result, Elem(list), "only one 'migrate' block allowed")

parsePeriodic(result, list) ==
    DecodedSingleton(result, Elem(list), "only one 'periodic' block allowed per job")

parseParameterizedJob(result, list) ==
    DecodedSingleton(result, Elem(list), "only one 'parameterized' block allowed per job")

(***************************************************************************)
(* The repeatable blocks parseAffinities and parseSpread: every item is    *)
(* checked against its whitelist and then decoded, in declaration order.   *)
(***************************************************************************)
RECURSIVE CheckedListFrom(_, _, _)
AfterChecked(list, i, result, e) ==
    IF e # Nil THEN Fail(e[1], result)
    ELSE CheckedListFrom(list, i + 1, Append(result, list[i]))

CheckedListFrom(list, i, result) ==
    IF i > Len(list) THEN Ok(result)
    ELSE AfterChecked(list, i, result,
                      FirstErr(<<CheckHCLKeys(list[i]), DecodeObject(list[i]),
                                 WeakDecode(list[i])>>))

parseAffinities(result, list) == CheckedListFrom(Elem(list), 1, result)

parseSpread(result, list) == CheckedListFrom(Elem(list), 1, result)

(***************************************************************************)
(* parseVault.  result is the api.Vault the caller allocated with the      *)
(* defaults; ptr identifies that allocation.                               *)
(***************************************************************************)
NewVault(ptr) ==
    [ptr |-> ptr, Policies |-> <<>>, Env |-> TRUE, ChangeMode |-> "restart"]

\* mapstructure.WeakDecode(m, result): only the keys present overwrite.
DecodeVault(result, o) ==
    [result EXCEPT
       !.Policies = IF o.policies # Nil THEN o.policies[1] ELSE @,
       !.Env = IF o.env # Nil THEN (o.env[1] = "true") ELSE @,
       !.ChangeMode = IF o.change_mode # Nil THEN o.change_mode[1] ELSE @]

\* Lines 1738-1747 once the key check and the decodes gave e.
VaultResult(result, o, e) ==
    IF e # Nil THEN Fail(e[1], result) ELSE Ok(DecodeVault(result, o))

\* Lines 1709-1747 on list = list.Elem().
VaultFrom(result, list) ==
    IF Len(list) = 0 THEN Ok(result)
    ELSE IF Len(list) > 1
    THEN Fail(Err("only one 'vault' block allowed per task", "", NoBlk), result)
    ELSE VaultResult(result, list[1],
                     FirstErr(<<WrappedErr(CheckHCLKeys(list[1]), <<P("", "vault ->")>>, <<>>),
                                DecodeObject(list[1]), WeakDecode(list[1])>>))

parseVault(result, list) == VaultFrom(result, Elem(list))

(***************************************************************************)
(* parsePorts.  A label is the sequence of its characters; a port item is  *)
(* [label (absent when the item has no key), static (absent, or the        *)
(* integer the attribute decodes to), badType].                            *)
(***************************************************************************)
UpperCase ==
    <<"A", "B", "C", "D", "E", "F", "G", "H", "I", "J", "K", "L", "M",
      "N", "O", "P", "Q", "R", "S", "T", "U", "V", "W", "X", "Y", "Z">>
LowerCase ==
    <<"a", "b", "c", "d", "e", "f", "g", "h", "i", "j", "k", "l", "m",
      "n", "o", "p", "q", "r", "s", "t", "u", "v", "w", "x", "y", "z">>
DigitChars == {"0", "1", "2", "3", "4", "5", "6", "7", "8", "9"}

Range(f) == {f[i] : i \in DOMAIN f}

\* reDynamicPorts = "^[a-zA-Z0-9_]+$"
reDynamicPorts(label) ==
    /\ Len(label) > 0
    /\ \A i \in 1..Len(label) :
         label[i] \in Range(UpperCase) \cup Range(LowerCase) \cup DigitChars \cup {"_"}

ToLowerChar(c) ==
    IF c \in Range(UpperCase)
    THEN LowerCase[CHOOSE i \in DOMAIN UpperCase : UpperCase[i] = c]
    ELSE c

\* As ToLower, but leaving the case of the letters.
ToLowerKeepCase(label) == label

\* strings.ToLower
ToLower(label) == [i \in 1..Len(label) |-> ToLowerChar(label[i])]

\* res.Value after the decode: the zero value when static is absent.
PortValue(port) == IF port.static = Nil THEN 0 ELSE port.static[1]

\* As IsReserved, but counting the value 0 as reserved.
IsReservedFromZero(value) == value >= 0

\* Line 1572.
IsReserved(value) == value > 0

NewNetwork == [ReservedPorts |-> <<>>, DynamicPorts |-> <<>>]

\* Lines 1571-1576.
AppendPort(nw, port) ==
    LET res == [Label |-> port.label[1], Value |-> PortValue(port)]
    IN IF IsReserved(res.Value)
       THEN [nw EXCEPT !.ReservedPorts = Append(@, res)]
       ELSE [nw EXCEPT !.DynamicPorts = Append(@, res)]

PortBlk(port) == [NoBlk EXCEPT !.badType = port.badType]

\* The loop of lines 1551-1578 from the i-th port on.
RECURSIVE ParsePortsFrom(_, _, _, _)
ParsePortsFrom(ports, i, knownPortLabels, nw) ==
    IF i > Len(ports) THEN Ok(nw)
    ELSE IF ports[i].label = Nil
    THEN Fail(Err("ports must be named", "", NoBlk), nw)
    ELSE IF ~reDynamicPorts(ports[i].label[1])
    THEN Fail(Err("Port label does not conform to naming requirements", "", NoBlk), nw)
    ELSE IF ToLower(ports[i].label[1]) \in knownPortLabels
    THEN Fail(Err("found a port label collision", ports[i].label[1], NoBlk), nw)
    ELSE IF WeakDecode(PortBlk(ports[i])) # Nil
    THEN Fail(Err("decode error", "", PortBlk(ports[i])), nw)
    ELSE ParsePortsFrom(ports, i + 1,
                        knownPortLabels \cup {ToLower(ports[i].label[1])},
                        AppendPort(nw, ports[i]))

\* networkObj is the network block: its keys, and its port items.
parsePorts(networkObj, nw) ==
    IF CheckHCLKeys(networkObj) # Nil THEN Fail(CheckHCLKeys(networkObj)[1], nw)
    ELSE ParsePortsFrom(networkObj.port, 1, {}, nw)

(***************************************************************************)
(* parseResources.  A resources item carries its network and device items; *)
(* a device item carries the number of its name keys.                      *)
(***************************************************************************)
ZeroResources == [Networks |-> <<>>, Devices |-> <<>>]

\* Lines 1459-1469 once the key check and the decodes of the block gave e.
NetworkResult(e, ports) ==
    Result(FirstErr(<<e, Wrapped(ports, <<P("", "resources, network, ports ->")>>, <<>>)>>),
           <<ports.val>>)

\* Lines 1436-1470: the network items o of the resources block.
ParseNetwork(o) ==
    IF Len(o) = 0 THEN Ok(<<>>)
    ELSE IF Len(o) > 1 THEN Fail(Err("only one 'network' resource allowed", "", NoBlk), <<>>)
    ELSE NetworkResult(
           FirstErr(<<WrappedErr(CheckHCLKeys(o[1]), <<P("", "resources, network ->")>>, <<>>),
                      DecodeObject(o[1]), WeakDecode(o[1])>>),
           parsePorts(o[1], NewNetwork))

DevicePrefix == <<P("", "resources, device[%d]->")>>

\* Lines 1503-1532 once the name and key checks and the decode gave e.
DeviceResult(do, e, cons, aff) ==
    Result(FirstErr(<<e,
                      Wrapped(cons, <<P("", "constraint ->")>>, <<Frame("constraint", "")>>),
                      Wrapped(aff, <<P("", "affinity ->")>>, <<Frame("affinity", "")>>)>>),
           [Constraints |-> cons.val, Affinities |-> aff.val])

\* One iteration of the loop of lines 1475-1533.
ParseDevice(do) ==
    IF do.names = 0
    THEN Fail(Wrap(Err("missing device name", "", NoBlk), DevicePrefix, <<>>), <<>>)
    ELSE IF do.names > 1
    THEN Fail(Wrap(Err("only one name may be specified", "", NoBlk), DevicePrefix, <<>>), <<>>)
    ELSE DeviceResult(do,
                      FirstErr(<<WrappedErr(CheckHCLKeys(do), DevicePrefix, <<>>),
                                 DecodeObject(do), WeakDecode(do)>>),
                      parseConstraints(<<>>, do.constraint),
                      parseAffinities(<<>>, do.affinity))

RECURSIVE ParseDevicesFrom(_, _, _)
AfterDevice(list, idx, devices, r) ==
    IF r.err # Nil THEN Fail(r.err[1], devices)
    ELSE ParseDevicesFrom(list, idx + 1, Append(devices, r.val))

ParseDevicesFrom(list, idx, devices) ==
    IF idx > Len(list) THEN Ok(devices)
    ELSE AfterDevice(list, idx, devices, ParseDevice(list[idx]))

\* Lines 1420-1536 once the block's own checks gave e.
ResourcesResult(result, e, network, devices) ==
    Result(FirstErr(<<e, network.err, devices.err>>),
           [result EXCEPT !.Networks = network.val, !.Devices = devices.val])

\* Lines 1393-1536 on list = list.Elem().
ResourcesFrom(result, list) ==
    IF Len(list) = 0 THEN Ok(result)
    ELSE IF Len(list) > 1
    THEN Fail(Err("only one 'resource' block allowed per task", "", NoBlk), result)
    ELSE ResourcesResult(result,
           FirstErr(<<WrappedErr(CheckHCLKeys(list[1]), <<P("", "resources ->")>>, <<>>),
                      DecodeObject(list[1]), WeakDecode(list[1])>>),
           ParseNetwork(list[1].network),
           ParseDevicesFrom(list[1].device, 1, <<>>))

parseResources(result, list) == ResourcesFrom(result, Elem(list))

(***************************************************************************)
(* The map blocks env, config and meta: every item of list.Elem() is       *)
(* decoded into the same map.  An item is [kv, badType, labelled], kv the  *)
(* function from its keys to its values.                                   *)
(***************************************************************************)
EmptyMap == [k \in {} |-> ""]

\* As MergeMap, but the decoded block replaces the map.
ReplaceMap(old, m) == m

\* mapstructure.WeakDecode(m, &map): the keys of m are set in the map, the
\* other keys of the map are kept.
MergeMap(old, m) ==
    [k \in DOMAIN old \cup DOMAIN m |-> IF k \in DOMAIN m THEN m[k] ELSE old[k]]

MapBlk(o) == [NoBlk EXCEPT !.badType = o.badType]

RECURSIVE MergeBlocksFrom(_, _, _)
MergeBlocksFrom(list, i, result) ==
    IF i > Len(list) THEN Ok(result)
    ELSE IF DecodeObject(MapBlk(list[i])) # Nil
    THEN Fail(DecodeObject(MapBlk(list[i]))[1], result)
    ELSE IF WeakDecode(MapBlk(list[i])) # Nil
    THEN Fail(WeakDecode(MapBlk(list[i]))[1], result)
    ELSE MergeBlocksFrom(list, i + 1, MergeMap(result, list[i].kv))

\* The loops `for _, o := range metaO.Elem().Items` of job, group and task.
MergeBlocks(result, list) == MergeBlocksFrom(Elem(list), 1, result)

(***************************************************************************)
(* The logs and dispatch_payload blocks of a task (lines 990-1017 and      *)
(* 1047-1071): o holds the items of the key, labelled or not.              *)
(***************************************************************************)
TaskSingleton(n, o, only, text) ==
    IF Len(o) = 0 THEN Ok(Nil)
    ELSE IF Len(o) > 1 THEN Fail(Err(only, "", NoBlk), Nil)
    ELSE Result(FirstErr(<<WrappedErr(CheckHCLKeys(o[1]), <<P(n, text)>>, <<>>),
                           DecodeObject(o[1]), WeakDecode(o[1])>>),
                Some(o[1]))

(***************************************************************************)
(* parseArtifacts and parseArtifactOption.                                 *)
(***************************************************************************)
\* Lines 1126-1143 on list = list.Elem().
ArtifactOptionFrom(result, list) ==
    IF Len(list) > 1
    THEN Fail(Err("only one 'options' block allowed per artifact", "", NoBlk), result)
    ELSE IF Len(list) = 0 THEN Fail(IndexOutOfRange, result)
    ELSE Result(FirstErr(<<DecodeObject(MapBlk(list[1])), WeakDecode(MapBlk(list[1]))>>),
                MergeMap(result, list[1].kv))

parseArtifactOption(result, list) == ArtifactOptionFrom(result, Elem(list))

\* Lines 1111-1119 once the key check and the decodes of the artifact gave e.
ArtifactResult(e, hasOptions, options) ==
    Result(FirstErr(<<e, IF hasOptions
                         THEN Wrapped(options, <<P("", "options: ")>>, <<>>)
                         ELSE Nil>>),
           [GetterOptions |-> IF hasOptions THEN Some(options.val) ELSE Nil])

ParseArtifact(o) ==
    ArtifactResult(FirstErr(<<CheckHCLKeys(o), DecodeObject(o), WeakDecode(o)>>),
                   Len(o.options) > 0,
                   parseArtifactOption(EmptyMap, o.options))

RECURSIVE ParseArtifactsFrom(_, _, _)
AfterArtifact(list, i, result, r) ==
    IF r.err # Nil THEN Fail(r.err[1], result)
    ELSE ParseArtifactsFrom(list, i + 1, Append(result, r.val))

ParseArtifactsFrom(list, i, result) ==
    IF i > Len(list) THEN Ok(result)
    ELSE AfterArtifact(list, i, result, ParseArtifact(list[i]))

parseArtifacts(result, list) == ParseArtifactsFrom(Elem(list), 1, result)

\* parseTemplates: whitelist, map decode and typed decode of every item.
parseTemplates(result, list) == CheckedListFrom(Elem(list), 1, result)

(***************************************************************************)
(* parseServices, parseChecks and parseCheckRestart.  The loops run over   *)
(* every item of the key; the names of services and checks are decoded     *)
(* attributes and are not modelled.                                        *)
(***************************************************************************)
parseCheckRestart(cro) ==
    Result(FirstErr(<<WrappedErr(CheckHCLKeys(cro), <<P("", "check_restart ->")>>,
                                 <<Frame("check_restart", "")>>),
                      DecodeObject(cro), WeakDecode(cro)>>),
           Some(cro))

\* Lines 1240-1249 and 1342-1351: the check_restart items cro of a service
\* or of a check, whose errors are wrapped with text.
CheckRestartOf(cro, text) ==
    IF Len(cro) = 0 THEN Ok(Nil)
    ELSE IF Len(cro) > 1
    THEN Fail(Err("cannot have more than 1 check_restart", "", NoBlk), Nil)
    ELSE Result(Wrapped(parseCheckRestart(cro[1]), <<P("", text)>>, <<>>), Some(cro[1]))

\* The header items of a check (lines 1288-1318).  An item is [object
\* (whether it is a block, not an attribute), kv (the function from its
\* header names to their values)]; a value is [list (whether it is a list),
\* elems (its elements, [t, v] each)].
HeaderValueOk(vI) ==
    vI.list /\ \A i \in 1..Len(vI.elems) : vI.elems[i].t = "string"

Strings(vs) == [i \in 1..Len(vs) |-> vs[i].v]

\* As AppendHeader, but the values of a later block replace the earlier ones.
ReplaceHeader(m, k, vs) ==
    IF vs = <<>> THEN m
    ELSE [n \in DOMAIN m \cup {k} |-> IF n = k THEN vs ELSE m[n]]

\* Line 1306 for every element of vs: m[k] = append(m[k], v).
AppendHeader(m, k, vs) ==
    IF vs = <<>> THEN m
    ELSE [n \in DOMAIN m \cup {k} |->
            IF n = k THEN (IF k \in DOMAIN m THEN m[k] ELSE <<>>) \o vs ELSE m[n]]

\* Lines 1296-1308 for one block whose values are all lists of strings:
\* the names are distinct, so the order of the Go map iteration is immaterial.
RECURSIVE MergeHeaderBlock(_, _, _)
MergeHeaderBlock(m, rawm, names) ==
    IF names = {} THEN m
    ELSE LET k == CHOOSE n \in names : TRUE
         IN MergeHeaderBlock(AppendHeader(m, k, Strings(rawm[k].elems)), rawm, names \ {k})

\* The two errors of lines 1299 and 1304 differ in their text and name a
\* key chosen by the Go map iteration; the model keeps what they share.
HeaderTypeError == Err("check -> header -> expected a []string", "", NoBlk)

RECURSIVE ParseHeadersFrom(_, _, _)
ParseHeadersFrom(headerRaw, i, m) ==
    IF i > Len(headerRaw) THEN Ok(Some(m))
    ELSE IF \E k \in DOMAIN headerRaw[i].kv : ~HeaderValueOk(headerRaw[i].kv[k])
    THEN Fail(HeaderTypeError, Nil)
    ELSE ParseHeadersFrom(headerRaw, i + 1,
                          MergeHeaderBlock(m, headerRaw[i].kv, DOMAIN headerRaw[i].kv))

\* Lines 1290-1318: cm["header"] is present when the check has header blocks.
ParseHeader(headerRaw) ==
    IF Len(headerRaw) = 0 THEN Ok(Nil)
    ELSE IF \E i \in 1..Len(headerRaw) : ~headerRaw[i].object
    THEN Fail(Err("check -> header -> expected a []map[string][]string", "", NoBlk), Nil)
    ELSE ParseHeadersFrom(headerRaw, 1, EmptyMap)

\* One iteration of the loop of parseChecks: the key check and the map
\* decode gave e, the typed decode gave dec.
CheckResult(e, header, dec, restart) ==
    Result(FirstErr(<<e, header.err, dec, restart.err>>),
           [Header |-> header.val, CheckRestart |-> restart.val])

ParseCheck(co) ==
    CheckResult(FirstErr(<<WrappedErr(CheckHCLKeys(co), <<P("", "check ->")>>,
                                      <<Frame("check", "")>>),
                           DecodeObject(co)>>),
                ParseHeader(co.header),
                WeakDecode(co),
                CheckRestartOf(co.check_restart, "check: '%s',"))

RECURSIVE ParseChecksFrom(_, _, _)
AfterCheck(checkObjs, idx, checks, r) ==
    IF r.err # Nil THEN Fail(r.err[1], checks)
    ELSE ParseChecksFrom(checkObjs, idx + 1, Append(checks, r.val))

ParseChecksFrom(checkObjs, idx, checks) ==
    IF idx > Len(checkObjs) THEN Ok(checks)
    ELSE AfterCheck(checkObjs, idx, checks, ParseCheck(checkObjs[idx]))

parseChecks(checkObjs) == ParseChecksFrom(checkObjs, 1, <<>>)

\* One iteration of the loop of parseServices.
ServiceResult(e, checks, restart) ==
    Result(FirstErr(<<e,
                      Wrapped(checks, <<P("", "service: '%s',")>>, <<>>),
                      restart.err>>),
           [Checks |-> checks.val, CheckRestart |-> restart.val])

ParseService(o) ==
    ServiceResult(FirstErr(<<WrappedErr(CheckHCLKeys(o), <<P("", "service (%d) ->")>>,
                                        <<Frame("service", "")>>),
                             DecodeObject(o), WeakDecode(o)>>),
                  parseChecks(o.check),
                  CheckRestartOf(o.check_restart, "service: '%s',"))

RECURSIVE ParseServicesFrom(_, _, _)
AfterService(serviceObjs, idx, services, r) ==
    IF r.err # Nil THEN Fail(r.err[1], services)
    ELSE ParseServicesFrom(serviceObjs, idx + 1, Append(services, r.val))

ParseServicesFrom(serviceObjs, idx, services) ==
    IF idx > Len(serviceObjs) THEN Ok(services)
    ELSE AfterService(serviceObjs, idx, services, ParseService(serviceObjs[idx]))

parseServices(serviceObjs) == ParseServicesFrom(serviceObjs, 1, <<>>)

(***************************************************************************)
(* parseTasks.  scope is the position of the enclosing group item (0 for   *)
(* the tasks directly under the job); it only identifies the allocations.  *)
(***************************************************************************)
TaskPtr(scope, i) == [site |-> "task", g |-> scope, t |-> i]
GroupPtr(i) == [site |-> "group", g |-> i, t |-> 0]
JobPtr == [site |-> "job", g |-> 0, t |-> 0]

\* As TaskKeysPrefix, but without the name of the task.
TaskKeysPrefixUnnamed(n) == <<P("", "->")>>

\* Line 879: fmt.Sprintf("'%s' ->", n).
TaskKeysPrefix(n) == <<P(n, "->")>>

\* The errors of the blocks of the task n in the order of the code, each
\* wrapped as the loop body wraps it.
TaskErrors(n, hasVault, keys, dec, env, svc, config, cons, aff, meta, res, logs, arts, tmpl, v, dispatch) ==
    FirstErr(<<
      WrappedErr(keys, TaskKeysPrefix(n), <<Frame("task", n)>>),
      WrappedErr(dec, <<>>, <<Frame("task", n)>>),
      Wrapped(env, <<>>, <<Frame("task", n), Frame("env", "")>>),
      Wrapped(svc, <<P(n, ",")>>, <<Frame("task", n)>>),
      Wrapped(config, <<>>, <<Frame("task", n), Frame("config", "")>>),
      Wrapped(cons, <<P(n, "constraint ->")>>, <<Frame("task", n), Frame("constraint", "")>>),
      Wrapped(aff, <<P("", "affinity ->")>>, <<Frame("task", n), Frame("affinity", "")>>),
      Wrapped(meta, <<>>, <<Frame("task", n), Frame("meta", "")>>),
      Wrapped(res, <<P(n, ",")>>, <<Frame("task", n), Frame("resources", "")>>),
      Wrapped(logs, <<>>, <<Frame("task", n), Frame("logs", "")>>),
      Wrapped(arts, <<P(n, "artifact ->")>>, <<Frame("task", n), Frame("artifact", "")>>),
      Wrapped(tmpl, <<P(n, "template ->")>>, <<Frame("task", n), Frame("template", "")>>),
      IF hasVault
      THEN Wrapped(v, <<P(n, "vault ->")>>, <<Frame("task", n), Frame("vault", "")>>)
      ELSE Nil,
      Wrapped(dispatch, <<>>, <<Frame("task", n), Frame("dispatch_payload", "")>>) >>)

\* The task built from the results of its blocks, or their first error.
TaskResult(n, hasVault, hasResources, keys, dec, env, svc, config, cons, aff, meta, res, logs, arts, tmpl, v, dispatch) ==
    Result(TaskErrors(n, hasVault, keys, dec, env, svc, config, cons, aff, meta, res, logs,
                      arts, tmpl, v, dispatch),
           [Name |-> n,
            Env |-> env.val,
            Services |-> svc.val,
            Config |-> config.val,
            Constraints |-> cons.val,
            Affinities |-> aff.val,
            Meta |-> meta.val,
            Resources |-> IF hasResources THEN Some(res.val) ELSE Nil,
            LogConfig |-> logs.val,
            Artifacts |-> arts.val,
            Templates |-> tmpl.val,
            Vault |-> IF hasVault THEN Some(v.val) ELSE Nil,
            DispatchPayload |-> dispatch.val])

\* One iteration of the loop of parseTasks after the duplicate check.
ParseTask(scope, i, item) ==
    TaskResult(item.name, Len(item.vault) > 0, Len(item.resources) > 0,
               CheckHCLKeys(item.self),
               FirstErr(<<DecodeObject(item.self), WeakDecode(item.self)>>),
               MergeBlocks(EmptyMap, item.env),
               parseServices(item.service),
               MergeBlocks(EmptyMap, item.config),
               parseConstraints(<<>>, item.constraint),
               parseAffinities(<<>>, item.affinity),
               MergeBlocks(EmptyMap, item.meta),
               parseResources(ZeroResources, item.resources),
               TaskSingleton(item.name, item.logs,
                             "only one logs block is allowed in a Task", "logs ->"),
               parseArtifacts(<<>>, item.artifact),
               parseTemplates(<<>>, item.template),
               parseVault(NewVault(TaskPtr(scope, i)), item.vault),
               TaskSingleton(item.name, item.dispatch_payload,
                             "only one dispatch_payload block is allowed in a task",
                             "dispatch_payload ->"))

RECURSIVE ParseTasksFrom(_, _, _, _, _)
AfterTask(scope, list, i, seen, result, r) ==
    IF r.err # Nil THEN Fail(r.err[1], result)
    ELSE ParseTasksFrom(scope, list, i + 1, seen \cup {list[i].name},
                        Append(result, r.val))

ParseTasksFrom(scope, list, i, seen, result) ==
    IF i > Len(list) THEN Ok(result)
    ELSE IF list[i].name \in seen
    THEN Fail(Err("task defined more than once", list[i].name, NoBlk), result)
    ELSE AfterTask(scope, list, i, seen, result, ParseTask(scope, i, list[i]))

parseTasks(scope, result, list) == ParseTasksFrom(scope, list, 1, {}, result)

(***************************************************************************)
(* parseGroups.                                                            *)
(***************************************************************************)
\* As PushVault, but without the test of task.Vault == nil.
PushVaultOverwrite(tasks, v) ==
    [i \in 1..Len(tasks) |-> [tasks[i] EXCEPT !.Vault = Some(v)]]

\* Lines 433-438 and 265-272: the tasks without a Vault get the pointer v.
PushVault(tasks, v) ==
    [i \in 1..Len(tasks) |->
       IF tasks[i].Vault = Nil THEN [tasks[i] EXCEPT !.Vault = Some(v)] ELSE tasks[i]]

\* A singleton block of a parent: parsed only when the key is present.
IfPresent(list, r) == IF Len(list) > 0 THEN r ELSE Ok(Nil)

\* As GroupTasks, but the vault of the group is not pushed to its tasks.
GroupTasksNoPush(hasVault, tasks, v) == tasks

\* Lines 422-439: the tasks of a group, given the vault of the group.
GroupTasks(hasVault, tasks, v) == IF hasVault THEN PushVault(tasks, v) ELSE tasks

\* The group built from the results of its blocks, or their first error.
GroupResult(n, hasVault, keys, dec, cons, aff, restart, spread, resched, disk, update, migrate, meta, tasks, v) ==
    Result(FirstErr(<<
             WrappedErr(keys, <<P(n, "->")>>, <<Frame("group", n)>>),
             WrappedErr(dec, <<>>, <<Frame("group", n)>>),
             Wrapped(cons, <<P(n, "constraint ->")>>,
                     <<Frame("group", n), Frame("constraint", "")>>),
             Wrapped(aff, <<P(n, "affinity ->")>>,
                     <<Frame("group", n), Frame("affinity", "")>>),
             Wrapped(restart, <<P(n, "restart ->")>>,
                     <<Frame("group", n), Frame("restart", "")>>),
             Wrapped(spread, <<P("", "spread ->")>>,
                     <<Frame("group", n), Frame("spread", "")>>),
             Wrapped(resched, <<P(n, "reschedule ->")>>,
                     <<Frame("group", n), Frame("reschedule", "")>>),
             Wrapped(disk, <<P(n, "ephemeral_disk ->")>>,
                     <<Frame("group", n), Frame("ephemeral_disk", "")>>),
             Wrapped(update, <<P("", "update ->")>>,
                     <<Frame("group", n), Frame("update", "")>>),
             Wrapped(migrate, <<P("", "migrate ->")>>,
                     <<Frame("group", n), Frame("migrate", "")>>),
             Wrapped(meta, <<>>, <<Frame("group", n), Frame("meta", "")>>),
             Wrapped(tasks, <<P(n, "task:")>>, <<Frame("group", n)>>),
             IF hasVault
             THEN Wrapped(v, <<P(n, "vault ->")>>, <<Frame("group", n), Frame("vault", "")>>)
             ELSE Nil >>),
           [Name |-> n,
            Constraints |-> cons.val,
            Affinities |-> aff.val,
            RestartPolicy |-> restart.val,
            Spreads |-> spread.val,
            ReschedulePolicy |-> resched.val,
            EphemeralDisk |-> disk.val,
            Update |-> update.val,
            Migrate |-> migrate.val,
            Meta |-> meta.val,
            Tasks |-> GroupTasks(hasVault, tasks.val, v.val)])

\* One iteration of the loop of parseGroups after the duplicate check.
ParseGroup(i, item) ==
    GroupResult(item.name, Len(item.vault) > 0,
                CheckHCLKeys(item.self),
                FirstErr(<<DecodeObject(item.self), WeakDecode(item.self)>>),
                parseConstraints(<<>>, item.constraint),
                parseAffinities(<<>>, item.affinity),
                IfPresent(item.restart, parseRestartPolicy(Nil, item.restart)),
                parseSpread(<<>>, item.spread),
                IfPresent(item.reschedule, parseReschedulePolicy(Nil, item.reschedule)),
                IfPresent(item.ephemeral_disk, parseEphemeralDisk(Nil, item.ephemeral_disk)),
                IfPresent(item.update, parseUpdate(Nil, item.update)),
                IfPresent(item.migrate, parseMigrate(Nil, item.migrate)),
                MergeBlocks(EmptyMap, item.meta),
                parseTasks(i, <<>>, item.task),
                parseVault(NewVault(GroupPtr(i)), item.vault))

\* Lines 290-294: the duplicate check of the group names.
GroupSeenNever(seen, n) == FALSE

GroupSeen(seen, n) == n \in seen

RECURSIVE ParseGroupsFrom(_, _, _, _)
AfterGroup(list, i, seen, collection, r) ==
    IF r.err # Nil THEN Fail(r.err[1], collection)
    ELSE ParseGroupsFrom(list, i + 1, seen \cup {list[i].name},
                         Append(collection, r.val))

ParseGroupsFrom(list, i, seen, collection) ==
    IF i > Len(list) THEN Ok(collection)
    ELSE IF GroupSeen(seen, list[i].name)
    THEN Fail(Err("group defined more than once", list[i].name, NoBlk), collection)
    ELSE AfterGroup(list, i, seen, collection, ParseGroup(i, list[i]))

\* As AppendGroups, but the new groups are put before the existing ones.
PrependGroups(result, r) ==
    IF r.err # Nil THEN Fail(r.err[1], result)
    ELSE Ok([result EXCEPT !.TaskGroups = r.val \o @])

\* Line 444: the collection is appended to the groups the job already has.
AppendGroups(result, r) ==
    IF r.err # Nil THEN Fail(r.err[1], result)
    ELSE Ok([result EXCEPT !.TaskGroups = @ \o r.val])

parseGroups(result, list) == AppendGroups(result, ParseGroupsFrom(list, 1, {}, <<>>))

(***************************************************************************)
(* Parse and parseJob, one action per step.                                *)
(***************************************************************************)
\* var job api.Job
ZeroJob ==
    [ID |-> Nil, Name |-> Nil, Constraints |-> <<>>, Affinities |-> <<>>,
     Update |-> Nil, Periodic |-> Nil, Spreads |-> <<>>, ParameterizedJob |-> Nil,
     Reschedule |-> Nil, Migrate |-> Nil, Meta |-> EmptyMap, TaskGroups |-> <<>>]

\* As SynthGroup, but the task is left out of its group.
SynthGroupEmpty(t) ==
    [Name |-> t.Name, Constraints |-> <<>>, Affinities |-> <<>>,
     RestartPolicy |-> Nil, Spreads |-> <<>>, ReschedulePolicy |-> Nil,
     EphemeralDisk |-> Nil, Update |-> Nil, Migrate |-> Nil, Meta |-> EmptyMap,
     Tasks |-> <<>>]

\* &api.TaskGroup{Name: ..., Tasks: []*api.Task{t}}
SynthGroup(t) ==
    [Name |-> t.Name, Constraints |-> <<>>, Affinities |-> <<>>,
     RestartPolicy |-> Nil, Spreads |-> <<>>, ReschedulePolicy |-> Nil,
     EphemeralDisk |-> Nil, Update |-> Nil, Migrate |-> Nil, Meta |-> EmptyMap,
     Tasks |-> <<t>>]

\* What Parse returns when parseJob failed with e while building j.
ReturnPartialJob(j, e) == [job |-> Some(j), err |-> Some(e)]

ReturnError(j, e) == [job |-> Nil, err |-> Some(e)]

\* An error return of Parse before parseJob is entered.
Reject(e) ==
    /\ ret' = ReturnError(job, e)
    /\ pc' = "done"
    /\ UNCHANGED <<input, job>>

\* An error return of parseJob: Parse wraps it and returns.  A panic
\* raised below unwinds through parseJob and Parse, which return nothing.
Abort(e, partial) ==
    /\ IF e.panic
       THEN pc' = "panic" /\ UNCHANGED ret
       ELSE /\ ret' = ReturnError(partial,
                                  Wrap(e, <<P("", "error parsing 'job':")>>,
                                       <<Frame("job", input.key)>>))
            /\ pc' = "done"
    /\ job' = partial
    /\ UNCHANGED input

Goto(next, j) ==
    /\ pc' = next
    /\ job' = j
    /\ UNCHANGED <<input, ret>>

\* Parse up to the call of parseJob, and the item checks of parseJob.
Parse ==
    /\ pc = "Parse"
    /\ IF input.root.syntaxError
       THEN Reject(Wrap(Err("syntax error", "", NoBlk), <<P("", "error parsing:")>>, <<>>))
       ELSE IF input.root.badKey
       THEN Reject(Err("invalid key", "", [NoBlk EXCEPT !.badKey = TRUE]))
       ELSE IF input.root.jobs = 0
       THEN Reject(Err("'job' stanza not found", "", NoBlk))
       ELSE IF input.root.jobs # 1
       THEN Reject(Wrap(Err("only one 'job' block allowed", "", NoBlk),
                        <<P("", "error parsing 'job':")>>, <<>>))
       ELSE IF input.root.labels # 1
       THEN Reject(Wrap(Err("'job' block missing name", "", NoBlk),
                        <<P("", "error parsing 'job':")>>, <<>>))
       ELSE Goto("JobDecode", job)

\* Lines 100-123: the job's attributes are decoded into the result.
JobDecode ==
    /\ pc = "JobDecode"
    /\ LET named == [job EXCEPT !.ID = Some(input.key), !.Name = Some(input.key)]
           e == FirstErr(<<DecodeObject(input.self), WeakDecode(input.self)>>)
           decoded == [named EXCEPT
                         !.ID = IF input.idAttr # Nil THEN input.idAttr ELSE @,
                         !.Name = IF input.nameAttr # Nil THEN input.nameAttr ELSE @]
       IN IF e # Nil THEN Abort(e[1], named) ELSE Goto("JobCheckKeys", decoded)

\* Lines 125-159.
JobCheckKeys ==
    /\ pc = "JobCheckKeys"
    /\ LET e == CheckHCLKeys(input.self)
       IN IF e # Nil THEN Abort(Wrap(e[1], <<P("", "job:")>>, <<>>), job)
          ELSE Goto("JobConstraints", job)

JobConstraints ==
    /\ pc = "JobConstraints"
    /\ LET r == parseConstraints(job.Constraints, input.constraint)
           j == [job EXCEPT !.Constraints = r.val]
       IN IF r.err # Nil
          THEN Abort(Wrap(r.err[1], <<P("", "constraint ->")>>, <<Frame("constraint", "")>>), j)
          ELSE Goto("JobAffinities", j)

JobAffinities ==
    /\ pc = "JobAffinities"
    /\ LET r == parseAffinities(job.Affinities, input.affinity)
           j == [job EXCEPT !.Affinities = r.val]
       IN IF r.err # Nil
          THEN Abort(Wrap(r.err[1], <<P("", "affinity ->")>>, <<Frame("affinity", "")>>), j)
          ELSE Goto("JobUpdate", j)

JobUpdate ==
    /\ pc = "JobUpdate"
    /\ LET r == IfPresent(input.update, parseUpdate(job.Update, input.update))
       IN IF r.err # Nil
          THEN Abort(Wrap(r.err[1], <<P("", "update ->")>>, <<Frame("update", "")>>), job)
          ELSE Goto("JobPeriodic", [job EXCEPT !.Update = r.val])

JobPeriodic ==
    /\ pc = "JobPeriodic"
    /\ LET r == IfPresent(input.periodic, parsePeriodic(job.Periodic, input.periodic))
       IN IF r.err # Nil
          THEN Abort(Wrap(r.err[1], <<P("", "periodic ->")>>, <<Frame("periodic", "")>>), job)
          ELSE Goto("JobSpread", [job EXCEPT !.Periodic = r.val])

JobSpread ==
    /\ pc = "JobSpread"
    /\ LET r == parseSpread(job.Spreads, input.spread)
           j == [job EXCEPT !.Spreads = r.val]
       IN IF r.err # Nil
          THEN Abort(Wrap(r.err[1], <<P("", "spread ->")>>, <<Frame("spread", "")>>), j)
          ELSE Goto("JobParameterized", j)

JobParameterized ==
    /\ pc = "JobParameterized"
    /\ LET r == IfPresent(input.parameterized,
                          parseParameterizedJob(job.ParameterizedJob, input.parameterized))
       IN IF r.err # Nil
          THEN Abort(Wrap(r.err[1], <<P("", "parameterized ->")>>,
                          <<Frame("parameterized", "")>>), job)
          ELSE Goto("JobReschedule", [job EXCEPT !.ParameterizedJob = r.val])

JobReschedule ==
    /\ pc = "JobReschedule"
    /\ LET r == IfPresent(input.reschedule,
                          parseReschedulePolicy(job.Reschedule, input.reschedule))
       IN IF r.err # Nil
          THEN Abort(Wrap(r.err[1], <<P("", "reschedule ->")>>, <<Frame("reschedule", "")>>), job)
          ELSE Goto("JobMigrate", [job EXCEPT !.Reschedule = r.val])

JobMigrate ==
    /\ pc = "JobMigrate"
    /\ LET r == IfPresent(input.migrate, parseMigrate(job.Migrate, input.migrate))
       IN IF r.err # Nil
          THEN Abort(Wrap(r.err[1], <<P("", "migrate ->")>>, <<Frame("migrate", "")>>), job)
          ELSE Goto("JobMeta", [job EXCEPT !.Migrate = r.val])

\* Lines 217-229: the meta blocks are merged into result.Meta.
JobMeta ==
    /\ pc = "JobMeta"
    /\ LET r == MergeBlocks(job.Meta, input.meta)
       IN IF r.err # Nil
          THEN Abort(Wrap(r.err[1], <<>>, <<Frame("meta", "")>>), job)
          ELSE Goto("JobTasks", [job EXCEPT !.Meta = r.val])

\* Lines 231-245: the tasks directly under the job become one group each.
JobTasks ==
    /\ pc = "JobTasks"
    /\ LET r == parseTasks(0, <<>>, input.task)
           tasks == r.val
       IN IF r.err # Nil THEN Abort(Wrap(r.err[1], <<P("", "task:")>>, <<>>), job)
          ELSE IF Len(input.task) > 0
          THEN Goto("JobGroups",
                    [job EXCEPT !.TaskGroups = [i \in 1..Len(tasks) |-> SynthGroup(tasks[i])]])
          ELSE Goto("JobGroups", job)

\* Lines 247-252.
JobGroups ==
    /\ pc = "JobGroups"
    /\ LET r == parseGroups(job, input.group)
       IN IF r.err # Nil THEN Abort(Wrap(r.err[1], <<P("", "group:")>>, <<>>), job)
          ELSE Goto("JobVault", r.val)

\* Lines 254-273.
JobVault ==
    /\ pc = "JobVault"
    /\ IF Len(input.vault) > 0
       THEN LET r == parseVault(NewVault(JobPtr), input.vault)
            IN IF r.err # Nil
               THEN Abort(Wrap(r.err[1], <<P("", "vault ->")>>, <<Frame("vault", "")>>), job)
               ELSE LET tgs == job.TaskGroups
                    IN Goto("Return",
                            [job EXCEPT !.TaskGroups =
                               [i \in 1..Len(tgs) |->
                                  [tgs[i] EXCEPT !.Tasks = PushVault(tgs[i].Tasks, r.val)]]])
       ELSE Goto("Return", job)

\* Line 275 and lines 65-69: parseJob returns nil and Parse returns &job.
Return ==
    /\ pc = "Return"
    /\ ret' = [job |-> Some(job), err |-> Nil]
    /\ pc' = "done"
    /\ UNCHANGED <<input, job>>

Next ==
    \/ Parse
    \/ JobDecode
    \/ JobCheckKeys
    \/ JobConstraints
    \/ JobAffinities
    \/ JobUpdate
    \/ JobPeriodic
    \/ JobSpread
    \/ JobParameterized
    \/ JobReschedule
    \/ JobMigrate
    \/ JobMeta
    \/ JobTasks
    \/ JobGroups
    \/ JobVault
    \/ Return

(***************************************************************************)
(* The inputs explored.                                                    *)
(***************************************************************************)
Blks == [badKey : BOOLEAN, badType : BOOLEAN, labelled : {FALSE}]
BadKeyBlk == [NoBlk EXCEPT !.badKey = TRUE]
BadTypeBlk == [NoBlk EXCEPT !.badType = TRUE]

RootOk == [syntaxError |-> FALSE, badKey |-> FALSE, jobs |-> 1, labels |-> 1]

Roots ==
    {RootOk,
     [RootOk EXCEPT !.syntaxError = TRUE],
     [RootOk EXCEPT !.badKey = TRUE],
     [RootOk EXCEPT !.jobs = 0],
     [RootOk EXCEPT !.jobs = 2],
     [RootOk EXCEPT !.labels = 0]}

BaseInput ==
    [root |-> RootOk, key |-> "example", self |-> NoBlk, idAttr |-> Nil, nameAttr |-> Nil,
     constraint |-> <<>>, affinity |-> <<>>, update |-> <<>>, periodic |-> <<>>,
     spread |-> <<>>, parameterized |-> <<>>, reschedule |-> <<>>, migrate |-> <<>>,
     meta |-> <<>>, task |-> <<>>, group |-> <<>>, vault |-> <<>>]

BaseTask(n) ==
    [name |-> n, self |-> NoBlk, env |-> <<>>, service |-> <<>>, config |-> <<>>,
     constraint |-> <<>>, affinity |-> <<>>, meta |-> <<>>, resources |-> <<>>,
     logs |-> <<>>, artifact |-> <<>>, template |-> <<>>, vault |-> <<>>,
     dispatch_payload |-> <<>>]

BaseGroup(n) ==
    [name |-> n, self |-> NoBlk, constraint |-> <<>>, affinity |-> <<>>, restart |-> <<>>,
     spread |-> <<>>, reschedule |-> <<>>, ephemeral_disk |-> <<>>, update |-> <<>>,
     migrate |-> <<>>, meta |-> <<>>, task |-> <<>>, vault |-> <<>>]

Start(inputs) ==
    /\ input \in inputs
    /\ pc = "Parse"
    /\ job = ZeroJob
    /\ ret = [job |-> Nil, err |-> Nil]

\* Constraint entries.
Values ==
    {[t |-> "bool", v |-> "true"], [t |-> "bool", v |-> "false"],
     [t |-> "string", v |-> "true"], [t |-> "string", v |-> "false"],
     [t |-> "string", v |-> "0"], [t |-> "string", v |-> "maybe"],
     [t |-> "int", v |-> "1"]}

AllEntries ==
    [attribute : {Some("${attr.kernel.name}")}, operator : Opt({">", ""}), value : Opt({"linux"}),
     version : Opt({">= 0.1.0"}), regexp : Opt({"[a-z]+"}), set_contains : Opt({"a,b"}),
     distinct_hosts : Opt(Values), distinct_property : Opt({"${meta.rack}"}),
     badKey : BOOLEAN, labelled : {FALSE}]

PoolEntries ==
    [attribute : {Some("${attr.a}"), Some("${attr.b}")}, operator : {Nil}, value : {Nil},
     version : {Nil}, regexp : {Nil}, set_contains : {Nil},
     distinct_hosts : Opt({[t |-> "bool", v |-> "true"], [t |-> "bool", v |-> "false"],
                           [t |-> "string", v |-> "false"]}),
     distinct_property : {Nil}, badKey : {FALSE}, labelled : {FALSE}]

ConstraintInputs(n) ==
    {[BaseInput EXCEPT !.constraint = l] :
       l \in [1..1 -> AllEntries] \cup SeqsUpTo(PoolEntries, n)}

\* Names: tasks directly under the job and groups, over two names, with an
\* unknown key possible in the job, in a task or in a group.
Names == {"web", "db"}

NamedTasks ==
    {[BaseTask(n) EXCEPT !.self = b] : n \in Names, b \in {NoBlk, BadKeyBlk}}

NamedGroups ==
    {[BaseGroup(n) EXCEPT !.self = b] : n \in Names, b \in {NoBlk, BadKeyBlk}}
    \cup {[BaseGroup(n) EXCEPT !.task = <<[BaseTask("api") EXCEPT !.self = BadKeyBlk]>>] :
            n \in Names}

\* The attributes id and name of the job block.
AttrInputs ==
    {[BaseInput EXCEPT !.idAttr = i, !.nameAttr = n, !.task = <<BaseTask("web")>>] :
       i \in Opt({"example", "other"}), n \in Opt({"example", "My Job"})}

\* The minimal job: a key and one task with valid attributes and an empty
\* config block.
EmptyConfig == [kv |-> EmptyMap, badType |-> FALSE, labelled |-> FALSE]

MinimalJob(n) == [BaseInput EXCEPT !.task = <<[BaseTask(n) EXCEPT !.config = <<EmptyConfig>>]>>]

NameInputs(nb, ng) ==
    {[BaseInput EXCEPT !.root = r] : r \in Roots}
    \cup AttrInputs
    \cup {MinimalJob(n) : n \in Names}
    \cup {[BaseInput EXCEPT !.self = b, !.task = ts, !.group = gs] :
            b \in {NoBlk, BadKeyBlk},
            ts \in SeqsUpTo(NamedTasks, nb),
            gs \in SeqsUpTo(NamedGroups, ng)}

\* Vault blocks at the job, the groups and the tasks; the names are distinct.
VaultDefaults ==
    [policies |-> Some(<<"read">>), env |-> Nil, change_mode |-> Nil,
     badKey |-> FALSE, badType |-> FALSE, labelled |-> FALSE]

VaultSignal ==
    [policies |-> Some(<<"write">>), env |-> Some("false"), change_mode |-> Some("signal"),
     badKey |-> FALSE, badType |-> FALSE, labelled |-> FALSE]

VaultBadKey == [VaultDefaults EXCEPT !.badKey = TRUE]

TaskName(i) == <<"t1", "t2", "t3", "t4">>[i]
GroupName(i) == <<"g1", "g2", "g3", "g4">>[i]

\* The lists of at most n tasks named by position, each with one of the vaults.
VaultTasks(n, vaults) ==
    UNION {{[i \in 1..k |-> [BaseTask(TaskName(i)) EXCEPT !.vault = f[i]]] :
              f \in [1..k -> vaults]} : k \in 0..n}

\* Every group holds at most two tasks.
VaultGroups(n, nt) ==
    UNION {{[i \in 1..k |-> [BaseGroup(GroupName(i)) EXCEPT !.vault = f[i].v, !.task = f[i].ts]] :
              f \in [1..k -> [v : {<<>>, <<VaultSignal>>},
                              ts : VaultTasks(nt, {<<>>, <<VaultDefaults>>})]]} :
           k \in 0..n}

VaultInputs(nb, ng, nt) ==
    {[BaseInput EXCEPT !.vault = v, !.task = ts, !.group = gs] :
       v \in {<<>>, <<VaultDefaults>>, <<VaultSignal>>, <<VaultBadKey>>},
       ts \in VaultTasks(nb, {<<>>, <<VaultSignal>>}),
       gs \in VaultGroups(ng, nt)}

\* Blocks with an unknown key, an attribute of the wrong type, or both: in
\* the job block and its policy blocks, and in one group and its task.
OptBlk == {<<>>} \cup {<<b>> : b \in Blks}

OptVault == {<<>>} \cup {<<[VaultDefaults EXCEPT !.badKey = b.badKey, !.badType = b.badType]>> :
                            b \in Blks}

JobBlockInputs ==
    {[BaseInput EXCEPT !.self = b, !.update = u, !.migrate = m, !.periodic = p,
                       !.parameterized = q] :
       b \in Blks, u \in OptBlk, m \in OptBlk, p \in OptBlk, q \in OptBlk}

GroupBlockInputs ==
    {[BaseInput EXCEPT !.group =
        <<[BaseGroup("web") EXCEPT
             !.self = b, !.restart = r, !.update = u, !.vault = v,
             !.task = <<[BaseTask("api") EXCEPT !.self = tb, !.affinity = a]>>]>>] :
       b \in Blks, r \in OptBlk, u \in OptBlk, v \in OptVault, tb \in Blks, a \in OptBlk}

\* One failing block at one place of a job with a task and two groups.
BadEntry ==
    [attribute |-> Nil, operator |-> Nil, value |-> Nil, version |-> Nil, regexp |-> Nil,
     set_contains |-> Nil, distinct_hosts |-> Some([t |-> "string", v |-> "maybe"]),
     distinct_property |-> Nil, badKey |-> FALSE, labelled |-> FALSE]

FaultyTasks(n) ==
    {[BaseTask(n) EXCEPT !.self = b] : b \in {BadKeyBlk, BadTypeBlk}}
    \cup {[BaseTask(n) EXCEPT !.constraint = <<BadEntry>>]}
    \cup {[BaseTask(n) EXCEPT !.affinity = <<b>>] : b \in {BadKeyBlk, BadTypeBlk}}
    \cup {[BaseTask(n) EXCEPT !.vault = <<v>>] :
            v \in {VaultBadKey, [VaultDefaults EXCEPT !.badType = TRUE]}}

FaultyGroups(n) ==
    UNION {{[BaseGroup(n) EXCEPT !.self = b],
            [BaseGroup(n) EXCEPT !.affinity = <<b>>],
            [BaseGroup(n) EXCEPT !.restart = <<b>>],
            [BaseGroup(n) EXCEPT !.spread = <<b>>],
            [BaseGroup(n) EXCEPT !.reschedule = <<b>>],
            [BaseGroup(n) EXCEPT !.ephemeral_disk = <<b>>],
            [BaseGroup(n) EXCEPT !.update = <<b>>],
            [BaseGroup(n) EXCEPT !.migrate = <<b>>]} : b \in {BadKeyBlk, BadTypeBlk}}
    \cup {[BaseGroup(n) EXCEPT !.constraint = <<BadEntry>>]}
    \cup {[BaseGroup(n) EXCEPT !.vault = <<v>>] :
            v \in {VaultBadKey, [VaultDefaults EXCEPT !.badType = TRUE]}}
    \cup {[BaseGroup(n) EXCEPT !.task = <<BaseTask("sidecar"), t>>] : t \in FaultyTasks("api")}

FaultyJobs ==
    UNION {{[BaseInput EXCEPT !.affinity = <<b>>],
            [BaseInput EXCEPT !.spread = <<b>>],
            [BaseInput EXCEPT !.reschedule = <<b>>]} : b \in {BadKeyBlk, BadTypeBlk}}
    \cup {[BaseInput EXCEPT !.constraint = <<BadEntry>>]}
    \cup {[BaseInput EXCEPT !.task = <<BaseTask("cache"), t>>] : t \in FaultyTasks("web")}
    \cup {[BaseInput EXCEPT !.task = <<BaseTask("cache")>>, !.group = <<BaseGroup("db"), g>>] :
            g \in FaultyGroups("web") \cup {BaseGroup("web")}}

BlockInputs == JobBlockInputs \cup GroupBlockInputs \cup FaultyJobs

\* Network blocks: one task with a resources block whose network block
\* declares the ports.
LabelWeb == <<"W", "e", "b">>
LabelWebLower == <<"w", "e", "b">>
LabelDb == <<"d", "b">>
LabelDash == <<"d", "-", "b">>
LabelUnderscore == <<"d", "_", "8">>

AllPorts ==
    [label : Opt({LabelWeb, LabelWebLower, LabelDb, LabelDash}),
     static : Opt({-1, 0, 80}), badType : BOOLEAN]

PoolPorts ==
    [label : {Some(LabelWeb), Some(LabelWebLower), Some(LabelDb), Some(LabelUnderscore)},
     static : Opt({80}), badType : {FALSE}]

BaseNetwork(ports) ==
    [badKey |-> FALSE, badType |-> FALSE, labelled |-> FALSE, port |-> ports]

BaseResources(networks) ==
    [badKey |-> FALSE, badType |-> FALSE, labelled |-> FALSE,
     network |-> networks, device |-> <<>>]

PortJob(ports) ==
    [BaseInput EXCEPT !.task =
       <<[BaseTask("web") EXCEPT !.resources = <<BaseResources(<<BaseNetwork(ports)>>)>>]>>]

PortInputs(n) ==
    {PortJob(ports) : ports \in SeqsUpTo(AllPorts, 2) \cup [1..n -> PoolPorts]}

\* Singleton blocks: one or two blocks of one kind under one parent, each
\* with or without a label after its key (`vault "a" { ... }`).
Labelled(b) == [b EXCEPT !.labelled = TRUE]

Repeats(b) == UNION {[1..k -> {b, Labelled(b)}] : k \in 1..2}

MapItem == [kv |-> [k \in {"checksum"} |-> "md5:0"], badType |-> FALSE, labelled |-> FALSE]

BaseArtifact(options) ==
    [badKey |-> FALSE, badType |-> FALSE, labelled |-> FALSE, options |-> options]

BaseCheck(restarts) ==
    [badKey |-> FALSE, badType |-> FALSE, labelled |-> FALSE, header |-> <<>>,
     check_restart |-> restarts]

BaseService(checks, restarts) ==
    [badKey |-> FALSE, badType |-> FALSE, labelled |-> FALSE,
     check |-> checks, check_restart |-> restarts]

SingletonTasks(n) ==
    UNION {{[BaseTask(n) EXCEPT !.logs = l],
            [BaseTask(n) EXCEPT !.dispatch_payload = l],
            [BaseTask(n) EXCEPT !.service = <<BaseService(<<>>, l)>>],
            [BaseTask(n) EXCEPT !.service = <<BaseService(<<BaseCheck(l)>>, <<>>)>>]} :
             l \in Repeats(NoBlk)}
    \cup {[BaseTask(n) EXCEPT !.vault = l] : l \in Repeats(VaultSignal)}
    \cup {[BaseTask(n) EXCEPT !.resources = l] : l \in Repeats(BaseResources(<<>>))}
    \cup {[BaseTask(n) EXCEPT !.resources = <<BaseResources(l)>>] :
            l \in Repeats(BaseNetwork(<<>>))}
    \cup {[BaseTask(n) EXCEPT !.artifact = <<BaseArtifact(l)>>] : l \in Repeats(MapItem)}

SingletonGroups(n) ==
    UNION {{[BaseGroup(n) EXCEPT !.restart = l],
            [BaseGroup(n) EXCEPT !.ephemeral_disk = l],
            [BaseGroup(n) EXCEPT !.update = l],
            [BaseGroup(n) EXCEPT !.migrate = l],
            [BaseGroup(n) EXCEPT !.reschedule = l]} : l \in Repeats(NoBlk)}
    \cup {[BaseGroup(n) EXCEPT !.vault = l, !.task = <<BaseTask("api")>>] :
            l \in Repeats(VaultSignal)}
    \cup {[BaseGroup(n) EXCEPT !.task = <<t>>] : t \in SingletonTasks("api")}

SingletonInputs ==
    UNION {{[BaseInput EXCEPT !.update = l],
            [BaseInput EXCEPT !.periodic = l],
            [BaseInput EXCEPT !.parameterized = l],
            [BaseInput EXCEPT !.migrate = l],
            [BaseInput EXCEPT !.reschedule = l]} : l \in Repeats(NoBlk)}
    \cup {[BaseInput EXCEPT !.vault = l, !.task = <<BaseTask("web")>>] :
            l \in Repeats(VaultSignal)}
    \cup {[BaseInput EXCEPT !.task = <<t>>] : t \in SingletonTasks("web")}
    \cup {[BaseInput EXCEPT !.group = <<g>>] : g \in SingletonGroups("web")}

\* Meta blocks over two keys at the job, a task directly under the job, a
\* group, or a task of a group.
MetaKeys == {"env", "region"}

MetaValues == {"prod", "us"}

MetaMaps == UNION {[ks -> MetaValues] : ks \in SUBSET MetaKeys}

MetaBlocks ==
    {[kv |-> m, badType |-> FALSE, labelled |-> FALSE] : m \in MetaMaps}
    \cup {[kv |-> [k \in {"env"} |-> "prod"], badType |-> TRUE, labelled |-> FALSE]}

MetaInputs(n) ==
    UNION {{[BaseInput EXCEPT !.meta = l, !.task = <<BaseTask("web")>>],
            [BaseInput EXCEPT !.task = <<[BaseTask("web") EXCEPT !.meta = l]>>],
            [BaseInput EXCEPT !.group =
               <<[BaseGroup("db") EXCEPT !.meta = l, !.task = <<BaseTask("api")>>]>>],
            [BaseInput EXCEPT !.task = <<BaseTask("web")>>, !.group =
               <<[BaseGroup("db") EXCEPT !.task = <<[BaseTask("api") EXCEPT !.meta = l]>>]>>]} :
             l \in SeqsUpTo(MetaBlocks, n)}

\* Header blocks of one check of one service of a task, over two header
\* names.
HeaderNames == {"Host", "Accept"}

StringLists ==
    {[list |-> TRUE, elems |-> <<>>],
     [list |-> TRUE, elems |-> <<[t |-> "string", v |-> "a"]>>],
     [list |-> TRUE, elems |-> <<[t |-> "string", v |-> "b"], [t |-> "string", v |-> "c"]>>]}

HeaderValues ==
    StringLists
    \cup {[list |-> FALSE, elems |-> <<[t |-> "string", v |-> "a"]>>],
          [list |-> TRUE, elems |-> <<[t |-> "string", v |-> "a"], [t |-> "int", v |-> "1"]>>]}

HeaderBlocks(values) ==
    {[object |-> TRUE, kv |-> m] : m \in UNION {[ns -> values] : ns \in SUBSET HeaderNames}}

HeaderAttribute == [object |-> FALSE, kv |-> EmptyMap]

HeaderJob(headers) ==
    [BaseInput EXCEPT !.task =
       <<[BaseTask("web") EXCEPT !.service =
            <<BaseService(<<[BaseCheck(<<>>) EXCEPT !.header = headers]>>, <<>>)>>]>>]

HeaderInputs(n) ==
    {HeaderJob(hs) : hs \in SeqsUpTo(HeaderBlocks(HeaderValues) \cup {HeaderAttribute}, 2)
                           \cup SeqsUpTo(HeaderBlocks(StringLists), n)}

Init == Start(NameInputs(MaxBare, MaxGroups))

Spec == Init /\ [][Next]_vars

InitBlocks == Start(BlockInputs)

SpecBlocks == InitBlocks /\ [][Next]_vars

\* At most one bare task and MaxGroups groups of at most two tasks.
InitVault == Start(VaultInputs(1, MaxGroups, 2))

SpecVault == InitVault /\ [][Next]_vars

InitConstraints == Start(ConstraintInputs(MaxConstraints))

SpecConstraints == InitConstraints /\ [][Next]_vars

InitPorts == Start(PortInputs(MaxPorts))

SpecPorts == InitPorts /\ [][Next]_vars

InitSingletons == Start(SingletonInputs)

SpecSingletons == InitSingletons /\ [][Next]_vars

InitMeta == Start(MetaInputs(MaxMeta))

SpecMeta == InitMeta /\ [][Next]_vars

InitHeaders == Start(HeaderInputs(MaxHeaders))

SpecHeaders == InitHeaders /\ [][Next]_vars

(***************************************************************************)
(* Properties.                                                             *)
(***************************************************************************)
Done == pc = "done"
Succeeded == ret.job # Nil
Failed == ret.err # Nil
Returned == ret.job[1]
Error == ret.err[1]

\* C1: in every job returned successfully the task-group names are pairwise
\* distinct over the whole group list, the groups made from the bare tasks
\* of the job and the explicit group blocks together.
C1_GroupNamesDistinct ==
    Succeeded =>
      \A i, j \in 1..Len(Returned.TaskGroups) :
        i # j => Returned.TaskGroups[i].Name # Returned.TaskGroups[j].Name

\* The inputs on which nothing can fail in a block (claim-side predicates).
CleanBlk(b) == ~b.badKey /\ ~b.badType
CleanList(l) == \A i \in 1..Len(l) : CleanBlk(l[i])
CleanSingle(l) == Len(l) <= 1 /\ CleanList(l)
BoolTexts == {"1", "t", "T", "TRUE", "true", "True", "0", "f", "F", "FALSE", "false", "False"}
CleanEntry(e) ==
    /\ ~e.badKey
    /\ e.distinct_hosts # Nil =>
         \/ e.distinct_hosts[1].t = "bool"
         \/ e.distinct_hosts[1].t = "string" /\ e.distinct_hosts[1].v \in BoolTexts
CleanEntries(l) == \A i \in 1..Len(l) : CleanEntry(l[i])
CleanTask(t) ==
    CleanBlk(t.self) /\ CleanEntries(t.constraint) /\ CleanList(t.affinity)
    /\ CleanSingle(t.vault)
CleanTasks(ts) ==
    /\ \A i, j \in 1..Len(ts) : i # j => ts[i].name # ts[j].name
    /\ \A i \in 1..Len(ts) : CleanTask(ts[i])
CleanGroup(g) ==
    /\ CleanBlk(g.self) /\ CleanEntries(g.constraint) /\ CleanList(g.affinity)
    /\ CleanSingle(g.restart) /\ CleanList(g.spread) /\ CleanSingle(g.reschedule)
    /\ CleanSingle(g.ephemeral_disk) /\ CleanSingle(g.update) /\ CleanSingle(g.migrate)
    /\ CleanTasks(g.task) /\ CleanSingle(g.vault)
CleanJobBlocks ==
    /\ input.root = RootOk /\ CleanBlk(input.self)
    /\ CleanEntries(input.constraint) /\ CleanList(input.affinity)
    /\ CleanSingle(input.update) /\ CleanSingle(input.periodic) /\ CleanList(input.spread)
    /\ CleanSingle(input.parameterized) /\ CleanSingle(input.reschedule)
    /\ CleanSingle(input.migrate) /\ CleanTasks(input.task)

\* The positions of the group blocks that repeat the name of an earlier one.
RepeatedAt == {j \in 1..Len(input.group) :
                 \E i \in 1..(j - 1) : input.group[i].name = input.group[j].name}
FirstRepeated == CHOOSE j \in RepeatedAt : \A k \in RepeatedAt : j <= k
\* Nothing processed before the first repeated group block can fail.
CleanBeforeRepeated ==
    CleanJobBlocks /\ \A i \in 1..(FirstRepeated - 1) : CleanGroup(input.group[i])

\* C2 as stated: every job with two explicit group blocks of one name fails
\* with the error "group <name> defined more than once" naming that group,
\* and no job is returned.
C2_DuplicateGroupError ==
    (Done /\ input.root = RootOk /\ RepeatedAt # {}) =>
      /\ ~Succeeded
      /\ Failed
      /\ Error.msg = "group defined more than once"
      /\ Error.arg \in {input.group[j].name : j \in RepeatedAt}

\* C2 amended: every job with two explicit group blocks of one name fails
\* and returns no job; the error is "group <name> defined more than once",
\* naming the first repeated group, whenever nothing processed before the
\* second block of that name fails (the job's attributes and job-level
\* blocks, its bare tasks, the group blocks declared before it).
C2_DuplicateGroupFails ==
    (Done /\ input.root = RootOk /\ RepeatedAt # {}) =>
      /\ ~Succeeded
      /\ Failed
      /\ CleanBeforeRepeated =>
           /\ Error.msg = "group defined more than once"
           /\ Error.arg = input.group[FirstRepeated].name

C2_Witness ==
    /\ Done /\ RepeatedAt # {} /\ CleanBeforeRepeated
    /\ Len(input.task) > 0 /\ FirstRepeated = 2
    /\ Failed /\ Error.msg = "group defined more than once"

\* The configuration a vault block stands for (claim-side): the attributes
\* it sets, env=true and change_mode="restart" where it sets none.
VaultConfig(o) ==
    [Policies |-> IF o.policies = Nil THEN <<>> ELSE o.policies[1],
     Env |-> IF o.env = Nil THEN TRUE ELSE o.env[1] = "true",
     ChangeMode |-> IF o.change_mode = Nil THEN "restart" ELSE o.change_mode[1]]

Config(v) == [Policies |-> v.Policies, Env |-> v.Env, ChangeMode |-> v.ChangeMode]

\* The returned task of the i-th bare task, and of the t-th task of the
\* g-th group block.
BareTask(i) == Returned.TaskGroups[i].Tasks[1]
GroupTask(g, t) == Returned.TaskGroups[Len(input.task) + g].Tasks[t]

\* What C3 says of the returned task `out` of the task block tb, whose
\* group block has the vault blocks gv (none for a bare task).
InheritsJobVault(tb, gv, out) ==
    IF tb.vault # <<>>
    THEN out.Vault # Nil /\ Config(out.Vault[1]) = VaultConfig(tb.vault[1])
    ELSE gv = <<>> =>
           out.Vault # Nil /\ Config(out.Vault[1]) = VaultConfig(input.vault[1])

\* C3: given a job-level vault block, after a successful transform every
\* task with no vault block of its own, in a group with none, holds the
\* job's vault configuration with its defaults, and every task with its own
\* vault block keeps its own configuration.
C3_JobVaultInherited ==
    (Succeeded /\ input.vault # <<>>) =>
      /\ \A i \in 1..Len(input.task) : InheritsJobVault(input.task[i], <<>>, BareTask(i))
      /\ \A g \in 1..Len(input.group) : \A t \in 1..Len(input.group[g].task) :
           InheritsJobVault(input.group[g].task[t], input.group[g].vault, GroupTask(g, t))

C3_Witness ==
    /\ Succeeded /\ input.vault = <<VaultDefaults>>
    /\ \E g \in 1..Len(input.group) :
         /\ input.group[g].vault = <<>>
         /\ Len(input.group[g].task) = 2
         /\ input.group[g].task[1].vault # <<>>
         /\ input.group[g].task[2].vault = <<>>
         /\ GroupTask(g, 2).Vault # Nil
         /\ GroupTask(g, 2).Vault[1].Env = TRUE
         /\ GroupTask(g, 2).Vault[1].ChangeMode = "restart"

\* C4: a block that contains an unknown key always fails with the
\* unknown-key error, never with a decode error raised by that same block.
C4_UnknownKeyBeforeDecode ==
    (Failed /\ Error.unknownKey) => Error.msg = "invalid key"

\* The blocks a prefix names: of every wrapper its name, then its kind.
KindOf(text) ==
    CASE text = "error parsing 'job':" -> "job"
      [] text = "job:" -> "job"
      [] text = "group:" -> "group"
      [] text = "task:" -> "task"
      [] text = "constraint ->" -> "constraint"
      [] text = "affinity ->" -> "affinity"
      [] text = "update ->" -> "update"
      [] text = "periodic ->" -> "periodic"
      [] text = "spread ->" -> "spread"
      [] text = "parameterized ->" -> "parameterized"
      [] text = "reschedule ->" -> "reschedule"
      [] text = "migrate ->" -> "migrate"
      [] text = "vault ->" -> "vault"
      [] text = "restart ->" -> "restart"
      [] text = "ephemeral_disk ->" -> "ephemeral_disk"
      [] OTHER -> ""

RECURSIVE Mentions(_)
Mentions(prefix) ==
    IF prefix = <<>> THEN <<>>
    ELSE (IF Head(prefix).name # "" THEN <<Head(prefix).name>> ELSE <<>>)
         \o (IF KindOf(Head(prefix).text) # "" THEN <<KindOf(Head(prefix).text)>> ELSE <<>>)
         \o Mentions(Tail(prefix))

\* A group or a task is named by its name, any other block by its kind.
Naming(frame) == IF frame.k \in {"group", "task"} THEN frame.n ELSE frame.k

RECURSIVE IsSubsequence(_, _)
IsSubsequence(a, b) ==
    IF a = <<>> THEN TRUE
    ELSE IF b = <<>> THEN FALSE
    ELSE IF Head(a) = Head(b) THEN IsSubsequence(Tail(a), Tail(b))
    ELSE IsSubsequence(a, Tail(b))

\* C5: the prefix of a returned error names every block enclosing the
\* failure, from the outermost to the innermost: groups and tasks by their
\* name, the other blocks by their kind.
C5_ErrorNamesEnclosingBlocks ==
    Failed =>
      IsSubsequence([i \in 1..Len(Error.at) |-> Naming(Error.at[i])], Mentions(Error.prefix))

\* C6: Parse returns either a job and no error or an error and no job, and
\* once an error is returned nothing more is processed.
C6_NoPartialResult ==
    /\ [](/\ Done => (Succeeded # Failed)
          /\ ~Done => (~Succeeded /\ ~Failed))
    /\ [][Failed => UNCHANGED vars]_vars

C6_Witness ==
    /\ Done /\ Failed /\ ~Succeeded
    /\ Len(input.group) > 0 /\ job.TaskGroups = <<>> /\ job.ID # Nil

\* The vaults of all the tasks of the returned job, in order.
RECURSIVE TaskVaults(_)
TaskVaults(groups) ==
    IF groups = <<>> THEN <<>>
    ELSE [i \in 1..Len(Head(groups).Tasks) |-> Head(groups).Tasks[i].Vault]
         \o TaskVaults(Tail(groups))

\* C7: no two tasks of the returned job hold the same vault instance.
C7_NoSharedVault ==
    Succeeded =>
      LET vs == TaskVaults(Returned.TaskGroups)
      IN \A i, j \in 1..Len(vs) :
           (i # j /\ vs[i] # Nil /\ vs[j] # Nil) => vs[i][1].ptr # vs[j][1].ptr

\* The values of distinct_hosts that stand for true and for false.
TrueValue(v) ==
    \/ v.t = "bool" /\ v.v = "true"
    \/ v.t = "string" /\ v.v \in {"1", "t", "T", "TRUE", "true", "True"}
FalseValue(v) ==
    \/ v.t = "bool" /\ v.v = "false"
    \/ v.t = "string" /\ v.v \in {"0", "f", "F", "FALSE", "false", "False"}
Disabled(e) == e.distinct_hosts # Nil /\ FalseValue(e.distinct_hosts[1])

\* The returned constraint of the i-th entry of the job's constraint list.
Produced(i) ==
    Returned.Constraints[Cardinality({j \in 1..i : ~Disabled(input.constraint[j])})]

\* C8: an entry whose distinct_hosts is true yields a constraint with
\* operand distinct_hosts and an empty right-target, whatever value,
\* version, regexp or set_contains the entry also carries (entries that
\* also set distinct_property are left out of the statement).
C8_DistinctHostsTrue ==
    Succeeded =>
      \A i \in 1..Len(input.constraint) :
        LET e == input.constraint[i]
        IN (/\ e.distinct_hosts # Nil /\ TrueValue(e.distinct_hosts[1])
            /\ e.distinct_property = Nil) =>
             /\ Produced(i).Operand = "distinct_hosts"
             /\ Produced(i).RTarget = ""

\* C9: an entry whose distinct_hosts is false contributes nothing to the
\* resulting list, whatever else it carries, and the other entries are all
\* produced, in declaration order.
C9_DistinctHostsFalseOmitted ==
    Succeeded =>
      LET kept == SelectSeq(input.constraint, LAMBDA e : ~Disabled(e))
      IN /\ Len(Returned.Constraints) = Len(kept)
         /\ \A k \in 1..Len(kept) :
              Returned.Constraints[k] = ParseConstraintEntry(kept[k]).c

C9_Witness ==
    /\ Succeeded /\ Len(input.constraint) = 3
    /\ ~Disabled(input.constraint[1])
    /\ Disabled(input.constraint[2])
    /\ ~Disabled(input.constraint[3])
    /\ input.constraint[1].attribute # input.constraint[3].attribute
    /\ Len(Returned.Constraints) = 2
    /\ Returned.Constraints[2].LTarget = input.constraint[3].attribute[1]

\* C10: an entry with version = v and none of regexp, set_contains,
\* distinct_hosts, distinct_property yields operand "version" and
\* right-target v, whatever operator and value it also carries.
C10_VersionWins ==
    Succeeded =>
      \A i \in 1..Len(input.constraint) :
        LET e == input.constraint[i]
        IN (/\ e.version # Nil /\ e.regexp = Nil /\ e.set_contains = Nil
            /\ e.distinct_hosts = Nil /\ e.distinct_property = Nil) =>
             /\ Produced(i).Operand = "version"
             /\ Produced(i).RTarget = e.version[1]

C10_Witness ==
    /\ Succeeded /\ Len(input.constraint) = 1
    /\ input.constraint[1].version # Nil
    /\ input.constraint[1].operator # Nil
    /\ input.constraint[1].value # Nil
    /\ input.constraint[1].regexp = Nil /\ input.constraint[1].set_contains = Nil
    /\ input.constraint[1].distinct_hosts = Nil /\ input.constraint[1].distinct_property = Nil
    /\ Returned.Constraints[1].Operand = "version"

(***************************************************************************)
(* Ports.                                                                  *)
(***************************************************************************)
\* The ports declared in the network block of the first task, and the
\* network of the returned task.
DeclaredPorts == input.task[1].resources[1].network[1].port
ReturnedNetwork == Returned.TaskGroups[1].Tasks[1].Resources[1].Networks[1]
HasNetwork ==
    /\ Len(input.task) = 1 /\ Len(input.task[1].resources) = 1
    /\ Len(input.task[1].resources[1].network) = 1

Positive(port) == port.static # Nil /\ port.static[1] > 0
AsPort(port) ==
    [Label |-> port.label[1], Value |-> IF port.static = Nil THEN 0 ELSE port.static[1]]
PortsOf(ports) == [i \in 1..Len(ports) |-> AsPort(ports[i])]

\* C11: after a successful transform of a network block the reserved list
\* holds exactly the declared ports whose value is greater than 0 and the
\* dynamic list exactly the others (value 0, negative or absent), each in
\* declaration order.
C11_PortsSplitByValue ==
    (Succeeded /\ HasNetwork) =>
      /\ ReturnedNetwork.ReservedPorts = PortsOf(SelectSeq(DeclaredPorts, Positive))
      /\ ReturnedNetwork.DynamicPorts =
           PortsOf(SelectSeq(DeclaredPorts, LAMBDA p : ~Positive(p)))

C11_Witness ==
    /\ Succeeded /\ HasNetwork /\ Len(DeclaredPorts) = 3
    /\ Positive(DeclaredPorts[1]) /\ DeclaredPorts[2].static = Nil
    /\ Positive(DeclaredPorts[3])
    /\ Len(ReturnedNetwork.ReservedPorts) = 2
    /\ ReturnedNetwork.ReservedPorts[2].Label = DeclaredPorts[3].label[1]
    /\ Len(ReturnedNetwork.DynamicPorts) = 1

\* Equality of two labels ignoring case, letter by letter.
LetterIndex(c) ==
    IF \E i \in 1..26 : UpperCase[i] = c \/ LowerCase[i] = c
    THEN CHOOSE i \in 1..26 : UpperCase[i] = c \/ LowerCase[i] = c
    ELSE 0
SameIgnoringCase(a, b) ==
    /\ Len(a) = Len(b)
    /\ \A i \in 1..Len(a) :
         a[i] = b[i] \/ (LetterIndex(a[i]) # 0 /\ LetterIndex(a[i]) = LetterIndex(b[i]))

\* The positions of the declared ports whose label equals, ignoring case,
\* the label of a port declared before.
CollidingAt ==
    {j \in 1..Len(DeclaredPorts) :
       /\ DeclaredPorts[j].label # Nil
       /\ \E i \in 1..(j - 1) :
            /\ DeclaredPorts[i].label # Nil
            /\ SameIgnoringCase(DeclaredPorts[i].label[1], DeclaredPorts[j].label[1])}
FirstColliding == CHOOSE j \in CollidingAt : \A k \in CollidingAt : j <= k

\* A port that passes the name, pattern and decode steps of the loop.
CleanPort(port) ==
    /\ port.label # Nil
    /\ \A i \in 1..Len(port.label[1]) : port.label[1][i] # "-"
    /\ ~port.badType

\* C12 as stated, on network blocks whose ports are all named with labels
\* that match the pattern: two ports of one network block with labels equal
\* ignoring case make the transform fail with the label-collision error.
C12_LabelCollisionError ==
    (/\ Done /\ HasNetwork /\ CollidingAt # {}
     /\ \A i \in 1..Len(DeclaredPorts) :
          DeclaredPorts[i].label # Nil /\ reDynamicPorts(DeclaredPorts[i].label[1])) =>
      /\ Failed
      /\ Error.msg = "found a port label collision"

\* C12 amended: two ports of one network block with labels equal ignoring
\* case make the transform fail, whatever their values; the error is the
\* label-collision error naming the second of the two labels whenever every
\* port declared before it is named, matches the pattern and decodes; and
\* in every successful result the labels of the reserved and dynamic ports
\* together are pairwise distinct ignoring case.
C12_LabelCollisionFails ==
    /\ (Done /\ HasNetwork /\ CollidingAt # {}) =>
         /\ ~Succeeded
         /\ Failed
         /\ (\A i \in 1..(FirstColliding - 1) : CleanPort(DeclaredPorts[i])) =>
              /\ Error.msg = "found a port label collision"
              /\ Error.arg = DeclaredPorts[FirstColliding].label[1]
    /\ (Succeeded /\ HasNetwork) =>
         LET all == ReturnedNetwork.ReservedPorts \o ReturnedNetwork.DynamicPorts
         IN \A i, j \in 1..Len(all) :
              i # j => ~SameIgnoringCase(all[i].Label, all[j].Label)

\* A reserved port Web and a dynamic port web after a clean port.
C12_Witness ==
    /\ Done /\ HasNetwork /\ Len(DeclaredPorts) = 3
    /\ CleanPort(DeclaredPorts[1])
    /\ DeclaredPorts[2].label = Some(LabelWeb) /\ Positive(DeclaredPorts[2])
    /\ DeclaredPorts[3].label = Some(LabelWebLower) /\ DeclaredPorts[3].static = Nil
    /\ FirstColliding = 3
    /\ Failed /\ Error.msg = "found a port label collision"

(***************************************************************************)
(* C13: singleton blocks.                                                  *)
(***************************************************************************)
\* The task items of the input, directly under the job or in its groups.
DeclaredTasks == Range(input.task) \cup UNION {Range(g.task) : g \in Range(input.group)}

\* The lists of blocks of one singleton kind under one parent.
TaskSites(t) ==
    {t.resources, t.logs, t.dispatch_payload, t.vault}
    \cup {r.network : r \in Range(t.resources)}
    \cup {a.options : a \in Range(t.artifact)}
    \cup {sv.check_restart : sv \in Range(t.service)}
    \cup UNION {{c.check_restart : c \in Range(sv.check)} : sv \in Range(t.service)}

GroupSites(g) == {g.restart, g.ephemeral_disk, g.update, g.migrate, g.vault}

SingletonSites ==
    {input.update, input.periodic, input.parameterized, input.migrate, input.vault}
    \cup UNION {GroupSites(g) : g \in Range(input.group)}
    \cup UNION {TaskSites(t) : t \in DeclaredTasks}

\* C13: when a singleton block kind appears more than once under one parent,
\* the transform fails and returns no job.
C13_RepeatedSingletonFails ==
    (Done /\ \E l \in SingletonSites : Len(l) > 1) => (Failed /\ ~Succeeded)

(***************************************************************************)
(* C14: duplicate task names.                                              *)
(***************************************************************************)
\* The positions of the tasks directly under the job that repeat the name
\* of an earlier one.
RepeatedTaskAt == {j \in 1..Len(input.task) :
                     \E i \in 1..(j - 1) : input.task[i].name = input.task[j].name}

\* C14: a job whose own attributes are valid and which holds two task blocks
\* of one name fails with the duplicate-task error, whatever errors its task
\* blocks contain.
C14_DuplicateTaskFirst ==
    (Done /\ input.root = RootOk /\ CleanBlk(input.self) /\ RepeatedTaskAt # {}) =>
      /\ Failed
      /\ Error.msg = "task defined more than once"

(***************************************************************************)
(* C15: repeated meta blocks.                                              *)
(***************************************************************************)
\* The map m holds the keys of all the blocks, and under a key of a single
\* block the value of that block.
UnionOf(blocks, m) ==
    /\ DOMAIN m = UNION {DOMAIN blocks[i].kv : i \in 1..Len(blocks)}
    /\ \A i \in 1..Len(blocks) : \A k \in DOMAIN blocks[i].kv :
         (\A j \in 1..Len(blocks) : j # i => k \notin DOMAIN blocks[j].kv)
           => m[k] = blocks[i].kv[k]

\* The group of the result built from the i-th explicit group block.
ResultGroup(i) == Returned.TaskGroups[Len(input.task) + i]

\* C15: after a successful transform the meta map of the job, of every group
\* and of every task is the union of the meta blocks given at that scope: it
\* has the keys of all the blocks, and a key of a single block has that
\* block's value.
C15_MetaBlocksMerge ==
    (Done /\ Succeeded) =>
      /\ UnionOf(input.meta, Returned.Meta)
      /\ \A i \in 1..Len(input.task) :
           UnionOf(input.task[i].meta, Returned.TaskGroups[i].Tasks[1].Meta)
      /\ \A i \in 1..Len(input.group) :
           /\ UnionOf(input.group[i].meta, ResultGroup(i).Meta)
           /\ \A t \in 1..Len(input.group[i].task) :
                UnionOf(input.group[i].task[t].meta, ResultGroup(i).Tasks[t].Meta)

\* Two meta blocks {env: prod} and {region: us} at one scope of a job that
\* was transformed: the job, a group, or a task.
DisjointPair(blocks) ==
    /\ Len(blocks) = 2
    /\ DOMAIN blocks[1].kv = {"env"} /\ blocks[1].kv["env"] = "prod"
    /\ DOMAIN blocks[2].kv = {"region"} /\ blocks[2].kv["region"] = "us"

C15_Witness ==
    /\ Done /\ Succeeded
    /\ Len(input.group) = 1 /\ Len(input.group[1].task) = 1
    /\ DisjointPair(input.group[1].task[1].meta)
    /\ ResultGroup(1).Tasks[1].Meta = [k \in MetaKeys |-> IF k = "env" THEN "prod" ELSE "us"]

(***************************************************************************)
(* C16: the name of a job without a name attribute.                        *)
(***************************************************************************)
\* C16: a job block without a name attribute yields a job whose name equals
\* its id, also when the block sets an id attribute.
C16_NameDefaultsToID ==
    (Done /\ Succeeded /\ input.nameAttr = Nil) => Returned.Name = Returned.ID

(***************************************************************************)
(* C17: groups synthesized from the tasks directly under the job.          *)
(***************************************************************************)
GroupNames == [i \in 1..Len(Returned.TaskGroups) |-> Returned.TaskGroups[i].Name]

\* C17: after a successful transform the groups are one group per task
\* declared directly under the job, in the order of the tasks, each named
\* after its task and holding that task alone, followed by the explicit
\* groups in the order of their declaration.
C17_SynthesizedGroupsFirst ==
    (Done /\ Succeeded) =>
      /\ Len(Returned.TaskGroups) = Len(input.task) + Len(input.group)
      /\ \A i \in 1..Len(input.task) :
           /\ Returned.TaskGroups[i].Name = input.task[i].name
           /\ Len(Returned.TaskGroups[i].Tasks) = 1
           /\ Returned.TaskGroups[i].Tasks[1].Name = input.task[i].name
      /\ \A j \in 1..Len(input.group) :
           /\ ResultGroup(j).Name = input.group[j].name
           /\ Len(ResultGroup(j).Tasks) = Len(input.group[j].task)

\* Two tasks under the job and two explicit groups, in different orders.
C17_Witness ==
    /\ Done /\ Succeeded
    /\ Len(input.task) = 2 /\ Len(input.group) = 2
    /\ GroupNames = <<"web", "db", "db", "web">>

(***************************************************************************)
(* C18: the minimal job.                                                   *)
(***************************************************************************)
IsMinimalJob == \E n \in Names : input = MinimalJob(n)

\* C18: the transform of a job block with a key and, directly under it, one
\* task with valid attributes and an empty config block succeeds; the job's
\* name and id are the key, its only group is named after the task and holds
\* that task alone, and every optional part of the job, the group and the
\* task is nil or empty.
C18_MinimalJob ==
    (Done /\ IsMinimalJob) =>
      /\ Succeeded /\ ~Failed
      /\ Returned.ID = Some(input.key) /\ Returned.Name = Returned.ID
      /\ Returned.Update = Nil /\ Returned.Periodic = Nil /\ Returned.Reschedule = Nil
      /\ Returned.Migrate = Nil /\ Returned.ParameterizedJob = Nil
      /\ Returned.Constraints = <<>> /\ Returned.Affinities = <<>>
      /\ Returned.Spreads = <<>> /\ Returned.Meta = EmptyMap
      /\ Len(Returned.TaskGroups) = 1
      /\ Returned.TaskGroups[1] =
           [Name |-> input.task[1].name, Constraints |-> <<>>, Affinities |-> <<>>,
            RestartPolicy |-> Nil, Spreads |-> <<>>, ReschedulePolicy |-> Nil,
            EphemeralDisk |-> Nil, Update |-> Nil, Migrate |-> Nil, Meta |-> EmptyMap,
            Tasks |-> <<[Name |-> input.task[1].name, Env |-> EmptyMap, Services |-> <<>>,
                         Config |-> EmptyMap, Constraints |-> <<>>, Affinities |-> <<>>,
                         Meta |-> EmptyMap, Resources |-> Nil, LogConfig |-> Nil,
                         Artifacts |-> <<>>, Templates |-> <<>>, Vault |-> Nil,
                         DispatchPayload |-> Nil]>>]

\* The minimal job with the task web was transformed.
C18_Witness ==
    /\ Done /\ input = MinimalJob("web") /\ Succeeded
    /\ Returned.TaskGroups[1].Tasks[1].Name = "web"

(***************************************************************************)
(* C19: unknown keys in task blocks.                                       *)
(***************************************************************************)
\* The positions in prefix of the frames that carry the name n.
NamedAt(prefix, n) == {k \in 1..Len(prefix) : prefix[k].name = n}

CleanMaps(l) == \A i \in 1..Len(l) : ~l[i].badType

\* The job block and its blocks processed before its tasks are valid.
CleanJobHead ==
    /\ input.root = RootOk /\ CleanBlk(input.self)
    /\ CleanEntries(input.constraint) /\ CleanList(input.affinity)
    /\ CleanSingle(input.update) /\ CleanSingle(input.periodic) /\ CleanList(input.spread)
    /\ CleanSingle(input.parameterized) /\ CleanSingle(input.reschedule)
    /\ CleanSingle(input.migrate) /\ CleanMaps(input.meta)

\* The group block g and its blocks processed before its tasks are valid.
CleanGroupHead(g) ==
    /\ CleanBlk(g.self) /\ CleanEntries(g.constraint) /\ CleanList(g.affinity)
    /\ CleanSingle(g.restart) /\ CleanList(g.spread) /\ CleanSingle(g.reschedule)
    /\ CleanSingle(g.ephemeral_disk) /\ CleanSingle(g.update) /\ CleanSingle(g.migrate)
    /\ CleanMaps(g.meta)

\* The i-th task of ts has an unknown key; it is the first task of its name
\* and the tasks declared before it are valid.
FirstFailureAt(ts, i) ==
    /\ ts[i].self.badKey
    /\ \A j \in 1..(i - 1) : ts[j].name # ts[i].name
    /\ CleanTasks(SubSeq(ts, 1, i - 1))

\* The j-th group is the first of its name and the groups before it are valid.
ReachesGroup(j) ==
    /\ CleanJobHead /\ CleanTasks(input.task)
    /\ \A i \in 1..(j - 1) :
         CleanGroup(input.group[i]) /\ input.group[i].name # input.group[j].name
    /\ CleanGroupHead(input.group[j])

\* C19 as stated: a task block with an unknown key, directly under the job
\* or in a group, makes the transform fail with the unknown-key error whose
\* prefix holds the task's name, after the group's name for a task of a group.
C19_UnknownTaskKeyError ==
    (Done /\ input.root = RootOk) =>
      /\ \A i \in 1..Len(input.task) : input.task[i].self.badKey =>
           /\ Failed /\ Error.unknownKey
           /\ NamedAt(Error.prefix, input.task[i].name) # {}
      /\ \A j \in 1..Len(input.group) : \A t \in 1..Len(input.group[j].task) :
           input.group[j].task[t].self.badKey =>
             /\ Failed /\ Error.unknownKey
             /\ \E a \in NamedAt(Error.prefix, input.group[j].name) :
                  \E b \in NamedAt(Error.prefix, input.group[j].task[t].name) : a < b

\* C19 amended: a task block with an unknown key makes the transform fail;
\* when nothing processed before the key check of that task fails (the job
\* block and its blocks, the tasks declared before it, and for a task of a
\* group the tasks directly under the job, the groups declared before its
\* group and the other blocks of its group), the error is the unknown-key
\* error whose prefix holds the task's name, after the group's name for a
\* task of a group.
C19_UnknownTaskKeyFails ==
    (Done /\ input.root = RootOk) =>
      /\ \A i \in 1..Len(input.task) : input.task[i].self.badKey =>
           /\ Failed /\ ~Succeeded
           /\ (CleanJobHead /\ FirstFailureAt(input.task, i)) =>
                /\ Error.unknownKey
                /\ NamedAt(Error.prefix, input.task[i].name) # {}
      /\ \A j \in 1..Len(input.group) : \A t \in 1..Len(input.group[j].task) :
           input.group[j].task[t].self.badKey =>
             /\ Failed /\ ~Succeeded
             /\ (ReachesGroup(j) /\ FirstFailureAt(input.group[j].task, t)) =>
                  /\ Error.unknownKey
                  /\ \E a \in NamedAt(Error.prefix, input.group[j].name) :
                       \E b \in NamedAt(Error.prefix, input.group[j].task[t].name) : a < b

\* The second task of the second group has an unknown key, and the error
\* names the group web and then the task api.
C19_Witness ==
    /\ Done /\ Failed /\ Error.unknownKey
    /\ Len(input.group) = 2 /\ Len(input.group[2].task) = 2
    /\ input.group[2].task[2].self.badKey
    /\ ReachesGroup(2) /\ FirstFailureAt(input.group[2].task, 2)
    /\ \E a \in NamedAt(Error.prefix, "web") : \E b \in NamedAt(Error.prefix, "api") : a < b

(***************************************************************************)
(* C20: vault precedence.                                                  *)
(***************************************************************************)
\* The vault allocated at ptr for the vault block o.
VaultOf(ptr, o) ==
    [ptr |-> ptr, Policies |-> VaultConfig(o).Policies, Env |-> VaultConfig(o).Env,
     ChangeMode |-> VaultConfig(o).ChangeMode]

\* What C20 says of the returned task `out` of the task block tb allocated
\* at tptr, whose group block has the vault blocks gv allocated at gptr
\* (none for a task directly under the job).
VaultByPrecedence(tb, tptr, gv, gptr, out) ==
    IF tb.vault # <<>> THEN out.Vault = Some(VaultOf(tptr, tb.vault[1]))
    ELSE IF gv # <<>> THEN out.Vault = Some(VaultOf(gptr, gv[1]))
    ELSE IF input.vault # <<>> THEN out.Vault = Some(VaultOf(JobPtr, input.vault[1]))
    ELSE out.Vault = Nil

\* C20: after a successful transform every task with its own vault block
\* holds that block's vault, every other task of a group with a vault block
\* holds the group's vault, and every remaining task holds the job's vault
\* when the job has a vault block, and none otherwise.
C20_VaultPrecedence ==
    (Done /\ Succeeded) =>
      /\ \A i \in 1..Len(input.task) :
           VaultByPrecedence(input.task[i], TaskPtr(0, i), <<>>, JobPtr, BareTask(i))
      /\ \A g \in 1..Len(input.group) : \A t \in 1..Len(input.group[g].task) :
           VaultByPrecedence(input.group[g].task[t], TaskPtr(g, t),
                             input.group[g].vault, GroupPtr(g), GroupTask(g, t))

\* A job with a vault block and two groups: the first with a vault block,
\* a task with its own vault block and a task without, the second without
\* a vault block and with a task without.
C20_Witness ==
    /\ Done /\ Succeeded /\ input.vault = <<VaultDefaults>>
    /\ Len(input.group) = 2
    /\ input.group[1].vault = <<VaultSignal>> /\ Len(input.group[1].task) = 2
    /\ input.group[1].task[1].vault = <<VaultDefaults>>
    /\ input.group[1].task[2].vault = <<>>
    /\ input.group[2].vault = <<>> /\ Len(input.group[2].task) >= 1
    /\ input.group[2].task[1].vault = <<>>
    /\ GroupTask(1, 1).Vault[1].ptr = TaskPtr(1, 1)
    /\ GroupTask(1, 2).Vault[1].ChangeMode = "signal"
    /\ GroupTask(2, 1).Vault[1].ptr = JobPtr

(***************************************************************************)
(* C21: the operand and the right-target of a constraint.                  *)
(***************************************************************************)
\* The operand C21 gives the entry e: the last alias present, else the
\* operator attribute, else "=".
ExpectedOperand(e) ==
    IF e.distinct_property # Nil THEN "distinct_property"
    ELSE IF e.distinct_hosts # Nil /\ TrueValue(e.distinct_hosts[1]) THEN "distinct_hosts"
    ELSE IF e.set_contains # Nil THEN "set_contains"
    ELSE IF e.regexp # Nil THEN "regexp"
    ELSE IF e.version # Nil THEN "version"
    ELSE IF e.operator = Nil \/ e.operator = Some("") THEN "="
    ELSE e.operator[1]

\* The right-target C21 gives the entry e.
ExpectedRTarget(e) ==
    IF e.set_contains # Nil THEN e.set_contains[1]
    ELSE IF e.regexp # Nil THEN e.regexp[1]
    ELSE IF e.version # Nil THEN e.version[1]
    ELSE IF e.value # Nil THEN e.value[1]
    ELSE ""

\* C21: every constraint of a successful result has the operand of the last
\* alias present in its entry in the order version, regexp, set_contains,
\* distinct_hosts (when true), distinct_property, and the right-target of
\* the last present of version, regexp, set_contains, else the plain value;
\* without an alias the operand is the operator attribute, and "=" when
\* that is absent or empty.
C21_LastAliasWins ==
    (Done /\ Succeeded) =>
      \A i \in 1..Len(input.constraint) :
        ~Disabled(input.constraint[i]) =>
          /\ Produced(i).Operand = ExpectedOperand(input.constraint[i])
          /\ Produced(i).RTarget = ExpectedRTarget(input.constraint[i])

\* One entry with every alias present, distinct_hosts true, an operator
\* and a value was transformed.
C21_Witness ==
    /\ Done /\ Succeeded /\ Len(input.constraint) = 1
    /\ LET e == input.constraint[1]
       IN /\ e.version # Nil /\ e.regexp # Nil /\ e.set_contains # Nil
          /\ e.distinct_hosts # Nil /\ TrueValue(e.distinct_hosts[1])
          /\ e.distinct_property # Nil /\ e.operator # Nil /\ e.value # Nil
          /\ Returned.Constraints[1].Operand = "distinct_property"
          /\ Returned.Constraints[1].RTarget = e.set_contains[1]

(***************************************************************************)
(* C22: the header blocks of a check.                                      *)
(***************************************************************************)
\* The values of the header name n over the header blocks hs, in the order
\* of the blocks and, within a block, of its list.
RECURSIVE ValuesOf(_, _)
ValuesOf(hs, n) ==
    IF hs = <<>> THEN <<>>
    ELSE (IF n \in DOMAIN Head(hs).kv
          THEN [i \in 1..Len(Head(hs).kv[n].elems) |-> Head(hs).kv[n].elems[i].v]
          ELSE <<>>)
         \o ValuesOf(Tail(hs), n)

\* m[n] as Go reads it: no values under a name the map does not hold.
Lookup(m, n) == IF n \in DOMAIN m THEN m[n] ELSE <<>>

\* Every value of the header items hs is a list of strings.
WellTyped(hs) ==
    \A i \in 1..Len(hs) :
      /\ hs[i].object
      /\ \A n \in DOMAIN hs[i].kv :
           /\ hs[i].kv[n].list
           /\ \A k \in 1..Len(hs[i].kv[n].elems) : hs[i].kv[n].elems[k].t = "string"

\* The places of the checks of the tasks directly under the job: task i,
\* service s, check c.
CheckPlaces ==
    UNION {UNION {{[i |-> i, s |-> s, c |-> c] :
                     c \in 1..Len(input.task[i].service[s].check)} :
                  s \in 1..Len(input.task[i].service)} :
           i \in 1..Len(input.task)}

HeadersAt(p) == input.task[p.i].service[p.s].check[p.c].header

CheckAt(p) == Returned.TaskGroups[p.i].Tasks[1].Services[p.s].Checks[p.c]

\* C22: a check with header blocks whose values are all lists of strings
\* yields, after a successful transform, a header map that holds under
\* every header name the values of that name over all the blocks, in the
\* order of the blocks and of their lists; a value that is not a list, or
\* an element that is not a string, makes the transform fail.
C22_HeadersConcatenate ==
    Done =>
      \A p \in CheckPlaces :
        /\ (Succeeded /\ HeadersAt(p) # <<>>) =>
             /\ CheckAt(p).Header # Nil
             /\ \A n \in HeaderNames \cup DOMAIN CheckAt(p).Header[1] :
                  Lookup(CheckAt(p).Header[1], n) = ValuesOf(HeadersAt(p), n)
        /\ ~WellTyped(HeadersAt(p)) => (Failed /\ ~Succeeded)

\* Two header blocks that both give Host, the second also Accept, were
\* merged: Host holds a, then b and c.
C22_Witness ==
    /\ Done /\ Succeeded
    /\ \E p \in CheckPlaces :
         /\ Len(HeadersAt(p)) = 2
         /\ ValuesOf(HeadersAt(p), "Host") = <<"a", "b", "c">>
         /\ ValuesOf(HeadersAt(p), "Accept") = <<"a">>
         /\ "Accept" \notin DOMAIN HeadersAt(p)[1].kv
         /\ CheckAt(p).Header[1]["Host"] = <<"a", "b", "c">>
         /\ CheckAt(p).Header[1]["Accept"] = <<"a">>

(***************************************************************************)
(* C23: every invocation returns.                                          *)
(***************************************************************************)
\* C23: no invocation aborts abnormally, also when a singleton block kind
\* occurs only in labelled form, and an invocation that ended returned
\* either a job or an error.
C23_AlwaysReturns ==
    /\ pc # "panic"
    /\ Done => (Succeeded /\ ~Failed) \/ (Failed /\ ~Succeeded)

====
